---- MODULE Spec2Model ----
(***************************************************************************)
(* A model of the text-to-tree parsing engine of rgb-logseq-toolkit:       *)
(* Line classification (line.py), Property.loads (property.py), the Block  *)
(* builder from_lines and the tree assembler BlockTree.from_text with      *)
(* find_branches (block.py).                                               *)
(*                                                                         *)
(* Spec runs BlockTree.from_text on a source text; SpecLines runs          *)
(* from_lines on a run of lines; SpecIds builds blocks and reads Block.id; *)
(* SpecProperty runs Property.loads and Property.as_list; SpecPage runs    *)
(* parse_page_text (page.py); SpecGraph runs Graph.add_page and            *)
(* Graph.add_placeholder (graph.py); SpecLink constructs a ResourceLink    *)
(* (link.py); SpecLine runs parse_line on one raw line; SpecExport adds a  *)
(* page to a graph and reads GraphExporter.block_branches and              *)
(* load_graph_blocks; SpecTwice calls BlockTree.from_text several times in *)
(* one process; SpecGraphCalls is SpecGraph with Graph.add_placeholders;   *)
(* SpecRecursion follows the calls of Graph.add_page one by one, and       *)
(* SpecRecursionFair adds that a call under way takes its next step.       *)
(*                                                                         *)
(* Text is a sequence of one-character strings, so that startswith, lstrip, *)
(* slicing, split and the regular expressions act on characters as they do *)
(* in the Python source.                                                   *)
(***************************************************************************)
EXTENDS Integers, Sequences, FiniteSets, TLC

VARIABLES source, pc, blocks, tree_branches, block_branches, block_parent,
          error, lines, block,
          block_id, uuid4_count,
          prop_text, prop_loaded, value_list,
          resource_link,
          parsed_page, graph_pages, graph_blocks,
          line_raw, line_view,
          exporter_branches, loader_tables,
          parse_runs, field_default,
          call_stack

\* Block._id of the blocks of the list blocks, and the number of ids
\* uuid.uuid4 has handed out.
id_vars == <<block_id, uuid4_count>>

\* Property.loads: its argument, the Property it returns, and the list
\* Property.as_list returns for it.
property_vars == <<prop_text, prop_loaded, value_list>>

\* The ResourceLink under construction.
link_vars == <<resource_link>>

\* The Page parse_page_text returns, and Graph.pages and Graph.blocks.
graph_vars == <<parsed_page, graph_pages, graph_blocks>>

\* parse_line: the raw text of a line, and the views of the Line made of it.
line_vars == <<line_raw, line_view>>

\* The rows GraphExporter.block_branches returns, and the tables
\* load_graph_blocks returns.
export_vars == <<exporter_branches, loader_tables>>

\* The results of the calls of BlockTree.from_text made so far, and the list
\* that is the default of the field Block.branches.
twice_vars == <<parse_runs, field_default>>

\* The calls of Graph.add_page under way, the outermost first: of each its
\* page and the names of placeholders_needed not yet handed on.
recursion_vars == <<call_stack>>

\* The variables of the steps on graphs and on repeated calls.
later_vars == <<export_vars, twice_vars, recursion_vars>>

\* The variables of the steps that work on what the parser and the graph
\* hand on: single lines, exports, repeated parses.
derived_vars == <<line_vars, later_vars>>

vars == <<source, pc, blocks, tree_branches, block_branches, block_parent,
          error, lines, block, id_vars, property_vars, link_vars, graph_vars,
          derived_vars>>

\* ------------------------------------------------------------------ bounds

\* Longest source text, in physical lines, handed to BlockTree.from_text.
MaxLines == 4

\* Longest run of lines handed to from_lines directly.
MaxRun == 3

\* Longest run of lines of a block whose id is read.
MaxIdRun == 2

\* The greatest number of pieces of a property text.
MaxPieces == 4

\* The greatest number of lines of a page text.
MaxPageLines == 3

\* The greatest number of characters of a raw line handed to parse_line.
MaxChars == 5

\* The most lines of a text that is parsed more than once.
MaxParseLines == 3

\* The most calls of BlockTree.from_text in a row.
MaxParses == 3

\* The deepest nesting of calls of Graph.add_page followed.
MaxDepth == 6

\* ------------------------------------------------------- const.py markers

MARK_BLOCK_OPENER == "-"

MARK_BLOCK_CONTINUATION == " "

MARK_BLOCK_INDENT == "\t"

\* The backquote character, which the TLA+ lexer does not admit in a string.
BACKQUOTE == "BQ"

MARK_CODE_FENCE == <<BACKQUOTE, BACKQUOTE, BACKQUOTE>>

MARK_DIRECTIVE_OPENER == <<"#", "+", "B", "E", "G", "I", "N">>

MARK_DIRECTIVE_CLOSER == <<"#", "+", "E", "N", "D">>

MARK_DIRECTIVE_SPLIT == "_"

MARK_PROPERTY == <<":", ":", " ">>

\* The line separator of str.splitlines and of "\n".join.
NEWLINE == "\n"

\* The None of Python.
None == "None"

\* ------------------------------------------------------- string helpers

\* The one element of a one-element set.  The({e : x \in {v}}) is e with x
\* bound to the value of v, as a local variable assigned once.
The(S) == CHOOSE x \in S : TRUE

\* The least element of a non-empty set of integers.
Min(S) == CHOOSE x \in S : \A y \in S : x <= y

\* s.startswith(p)
StartsWith(s, p) == Len(s) >= Len(p) /\ SubSeq(s, 1, Len(p)) = p

\* s[n:] (n >= 0): the text after the first n characters.
DropFirst(s, n) == IF n >= Len(s) THEN <<>> ELSE SubSeq(s, n + 1, Len(s))

\* Position of the first occurrence of sub in s at or after position i; 0 if none
\* (str.find, one-based).
FindFrom(s, sub, i) ==
    IF \E j \in i..(Len(s) - Len(sub) + 1) : SubSeq(s, j, j + Len(sub) - 1) = sub
    THEN Min({j \in i..(Len(s) - Len(sub) + 1) : SubSeq(s, j, j + Len(sub) - 1) = sub})
    ELSE 0

\* sub in s
Contains(s, sub) == FindFrom(s, sub, 1) # 0

\* s.split(sep) for a non-empty separator: the list of pieces.
RECURSIVE Split(_, _)
Split(s, sep) ==
    The({ IF at = 0 THEN <<s>>
          ELSE <<SubSeq(s, 1, at - 1)>>
               \o The({Split(rest, sep) : rest \in {DropFirst(s, at + Len(sep) - 1)}})
        : at \in {FindFrom(s, sep, 1)} })

\* The number of leading characters of s that belong to chars.
LeadingCount(s, chars) ==
    IF \E j \in 1..Len(s) : s[j] \notin chars
    THEN Min({j \in 1..Len(s) : s[j] \notin chars}) - 1
    ELSE Len(s)

\* s.lstrip(chars): leading characters of the set chars removed.
LStrip(s, chars) == DropFirst(s, LeadingCount(s, chars))

\* The characters str.lstrip() with no argument removes (those of the alphabet).
WHITESPACE == {" ", "\t", "\n"}

\* sep.join(parts) for a one-character separator.
RECURSIVE Join(_, _)
Join(parts, sep) ==
    IF parts = <<>> THEN <<>>
    ELSE IF Len(parts) = 1 THEN parts[1]
    ELSE parts[1] \o <<sep>> \o The({Join(rest, sep) : rest \in {Tail(parts)}})

\* The concatenation of a list of lists.
RECURSIVE Flatten(_)
Flatten(ss) ==
    IF ss = <<>> THEN <<>>
    ELSE Head(ss) \o The({Flatten(rest) : rest \in {Tail(ss)}})

\* c * n: the character c repeated n times.
Repeat(c, n) == [i \in 1..n |-> c]

\* source.splitlines(), for text whose only line boundary is "\n": a final
\* newline ends the last line and opens no further one.
RECURSIVE SplitLines(_)
SplitLines(s) ==
    IF s = <<>> THEN <<>>
    ELSE The({ IF at = 0 THEN <<s>>
               ELSE <<SubSeq(s, 1, at - 1)>>
                    \o The({SplitLines(rest) : rest \in {DropFirst(s, at)}})
             : at \in {FindFrom(s, <<NEWLINE>>, 1)} })

\* ---------------------------------------------------------------- line.py

\* parse_line: a Line holds its raw text only; every other attribute is
\* computed from it.  A Line is modelled by its raw text.
parse_line(text) == text

\* Line.__unindented
Line_unindented(raw) == LStrip(raw, {MARK_BLOCK_INDENT})

\* Line.content
Line_content(raw) ==
    The({ IF unindented = <<>> THEN <<>>
          ELSE IF unindented = <<MARK_BLOCK_OPENER>> THEN <<>>
          ELSE IF unindented[1] \in {MARK_BLOCK_OPENER, MARK_BLOCK_CONTINUATION}
               THEN DropFirst(unindented, 2)
          ELSE unindented
        : unindented \in {Line_unindented(raw)} })

\* Line.depth
Line_depth(raw) ==
    The({ LET line_depth == Len(raw) - Len(unindented)
          IN  IF StartsWith(unindented, <<MARK_BLOCK_OPENER>>) THEN line_depth + 1
              ELSE IF StartsWith(unindented, <<MARK_BLOCK_CONTINUATION>>) THEN line_depth + 1
              ELSE IF unindented = <<"-">> THEN line_depth + 1
              ELSE line_depth
        : unindented \in {Line_unindented(raw)} })

\* Line.is_code_fence
Line_is_code_fence(raw) ==
    \E content \in {Line_content(raw)} : StartsWith(content, MARK_CODE_FENCE)

\* Line.is_block_opener
Line_is_block_opener(raw) ==
    \E content \in {Line_unindented(raw)} : StartsWith(content, <<"-">>)

\* Line.is_directive_opener
Line_is_directive_opener(raw) ==
    \E content \in {Line_content(raw)} : StartsWith(content, MARK_DIRECTIVE_OPENER)

\* Line.is_directive_closer
Line_is_directive_closer(raw) ==
    \E content \in {Line_content(raw)} : StartsWith(content, MARK_DIRECTIVE_CLOSER)

\* Line.is_property
Line_is_property(raw) ==
    /\ \E content \in {Line_content(raw)} : Contains(content, MARK_PROPERTY)
    /\ ~Line_is_code_fence(raw)

\* Line.is_content
Line_is_content(raw) ==
    IF Line_is_property(raw) THEN FALSE
    ELSE IF Line_is_directive_opener(raw) \/ Line_is_directive_closer(raw) THEN FALSE
    ELSE TRUE

\* Line.directive: [ok, value]; content.split("_")[1] raises IndexError when
\* the marker line holds no "_".
Line_directive(raw) ==
    IF Line_is_directive_opener(raw) \/ Line_is_directive_closer(raw)
    THEN The({ IF Len(parts) >= 2 THEN [ok |-> TRUE, value |-> parts[2]]
               ELSE [ok |-> FALSE, value |-> <<>>]
             : parts \in {The({Split(content, <<MARK_DIRECTIVE_SPLIT>>)
                               : content \in {Line_content(raw)}})} })
    ELSE [ok |-> TRUE, value |-> <<>>]

\* ---------------------------------------------------------------- uuid

\* str.replace(sub, ""): every occurrence of sub removed, left to right.
RECURSIVE RemoveAll(_, _)
RemoveAll(s, sub) ==
    The({ IF at = 0 THEN s
          ELSE SubSeq(s, 1, at - 1)
               \o The({RemoveAll(rest, sub) : rest \in {DropFirst(s, at + Len(sub) - 1)}})
        : at \in {FindFrom(s, sub, 1)} })

\* The number of trailing characters of s that belong to chars.
TrailingCount(s, chars) ==
    IF \E j \in 1..Len(s) : s[Len(s) + 1 - j] \notin chars
    THEN Min({j \in 1..Len(s) : s[Len(s) + 1 - j] \notin chars}) - 1
    ELSE Len(s)

\* s.rstrip(chars)
RStrip(s, chars) == SubSeq(s, 1, Len(s) - TrailingCount(s, chars))

\* s.strip(chars)
Strip(s, chars) == The({RStrip(t, chars) : t \in {LStrip(s, chars)}})

HEX_DIGITS ==
    {"0", "1", "2", "3", "4", "5", "6", "7", "8", "9",
     "a", "b", "c", "d", "e", "f", "A", "B", "C", "D", "E", "F"}

\* One hex digit in lower case: "A" and "a" name the same value.
LowerHex(c) ==
    CASE c = "A" -> "a" [] c = "B" -> "b" [] c = "C" -> "c"
      [] c = "D" -> "d" [] c = "E" -> "e" [] c = "F" -> "f" [] OTHER -> c

\* The digits uuid.UUID(hex=text) reads: "urn:" and "uuid:" removed, braces
\* stripped, hyphens removed.
UUID_hex(text) ==
    The({ The({ The({ RemoveAll(c, <<"-">>) : c \in {Strip(b, {"{", "}"})} })
              : b \in {RemoveAll(a, <<"u", "u", "i", "d", ":">>)} })
        : a \in {RemoveAll(text, <<"u", "r", "n", ":">>)} })

\* uuid.UUID(hex=text): [ok, value]; ValueError unless 32 hex digits remain.
\* The value is the digit string in lower case.  (int(hex, 16) is modelled
\* on digit strings: the sign, 0x prefix and digit-separating underscores it
\* also admits are not modelled.)
UUID(text) ==
    The({ IF Len(hex) = 32 /\ \A i \in 1..Len(hex) : hex[i] \in HEX_DIGITS
          THEN [ok |-> TRUE, value |-> [i \in 1..Len(hex) |-> LowerHex(hex[i])]]
          ELSE [ok |-> FALSE, value |-> <<>>]
        : hex \in {UUID_hex(text)} })

\* ---------------------------------------------------------------- link.py

\* DirectLink.to_page(page_name)
DirectLink_to_page(page_name) ==
    [target |-> page_name, link_type |-> "PAGE", link_text |-> None]

\* DirectLink.as_tag(tag)
DirectLink_as_tag(tag) ==
    [target |-> tag, link_type |-> "TAG", link_text |-> None]

\* ------------------------------------------------- line.py: link patterns

\* The characters \w matches, among the ASCII characters.
WORD_CHARS ==
    {"a", "b", "c", "d", "e", "f", "g", "h", "i", "j", "k", "l", "m",
     "n", "o", "p", "q", "r", "s", "t", "u", "v", "w", "x", "y", "z",
     "A", "B", "C", "D", "E", "F", "G", "H", "I", "J", "K", "L", "M",
     "N", "O", "P", "Q", "R", "S", "T", "U", "V", "W", "X", "Y", "Z",
     "0", "1", "2", "3", "4", "5", "6", "7", "8", "9", "_"}

\* First position at or after i that holds the character c, Len(s) + 1 if none.
RunEnd(s, i, c) ==
    IF \E j \in i..Len(s) : s[j] = c
    THEN Min({j \in i..Len(s) : s[j] = c})
    ELSE IF i > Len(s) THEN i ELSE Len(s) + 1

\* An attempt of  open open ([^close]+) close close  at position i: the
\* position of the last character matched, 0 if the pattern does not match
\* there.  The run [^close]+ is greedy and cannot give a character back.
DoubledMatchEnd(s, i, open, close) ==
    The({ IF /\ i + 1 <= Len(s)
             /\ s[i] = open /\ s[i + 1] = open
             /\ j > i + 2
             /\ j + 1 <= Len(s)
             /\ s[j] = close /\ s[j + 1] = close
          THEN j + 1
          ELSE 0
        : j \in {RunEnd(s, i + 2, close)} })

\* The lookbehind (?<! [`#] ) at position i.
NotBehind(s, i, chars) == i = 1 \/ s[i - 1] \notin chars

\* pattern.findall(s) from position i on, for the two patterns of the shape
\* (?<![`#]) open open (?P<target>[^close]+) close close : the targets of
\* the non-overlapping matches, left to right.  The scan goes from one
\* occurrence of open open to the next: the pattern matches nowhere else.
RECURSIVE FindAllDoubled(_, _, _, _)
FindAllDoubled(s, i, open, close) ==
    The({ IF at = 0 THEN <<>>
          ELSE The({ IF e # 0 /\ NotBehind(s, at, {BACKQUOTE, "#"})
                     THEN <<SubSeq(s, at + 2, e - 2)>>
                          \o The({FindAllDoubled(s, next, open, close) : next \in {e + 1}})
                     ELSE The({FindAllDoubled(s, next, open, close) : next \in {at + 1}})
                   : e \in {DoubledMatchEnd(s, at, open, close)} })
        : at \in {FindFrom(s, <<open, open>>, i)} })

\* LINK_PATTERN.findall
LINK_PATTERN_findall(s) == FindAllDoubled(s, 1, "[", "]")

\* BLOCK_LINK_PATTERN.findall
BLOCK_LINK_PATTERN_findall(s) == FindAllDoubled(s, 1, "(", ")")

\* First position at or after i that holds no word character.
WordEnd(s, i) ==
    IF \E j \in i..Len(s) : s[j] \notin WORD_CHARS
    THEN Min({j \in i..Len(s) : s[j] \notin WORD_CHARS})
    ELSE IF i > Len(s) THEN i ELSE Len(s) + 1

\* TAG_LINK_PATTERN.findall(s) from position i on: the pairs (group 1, group
\* 2) of the matches of (?<!`) # (?: (\w+) | \[\[ ([^\]]+) \]\] ) (?<!`).
\* The closing lookbehind reads the last matched character, a word
\* character or "]", and so never rejects.
\* The scan goes from one "#" to the next: the pattern matches nowhere else.
RECURSIVE TAG_LINK_PATTERN_from(_, _)
TAG_LINK_PATTERN_from(s, i) ==
    The({ IF at = 0 THEN <<>>
          ELSE The({ IF NotBehind(s, at, {BACKQUOTE}) /\ w > at + 1
                     THEN << <<SubSeq(s, at + 1, w - 1), <<>> >> >>
                          \o The({TAG_LINK_PATTERN_from(s, next) : next \in {w}})
                     ELSE IF NotBehind(s, at, {BACKQUOTE}) /\ e # 0
                     THEN << << <<>>, SubSeq(s, at + 3, e - 2) >> >>
                          \o The({TAG_LINK_PATTERN_from(s, next) : next \in {e + 1}})
                     ELSE The({TAG_LINK_PATTERN_from(s, next) : next \in {at + 1}})
                   : w \in {WordEnd(s, at + 1)},
                     e \in {DoubledMatchEnd(s, at + 1, "[", "]")} })
        : at \in {FindFrom(s, <<"#">>, i)} })

\* TAG_LINK_PATTERN.findall
TAG_LINK_PATTERN_findall(s) == TAG_LINK_PATTERN_from(s, 1)

\* Line.links
Line_links(raw) ==
    The({ [i \in 1..Len(link_matches) |-> DirectLink_to_page(link_matches[i])]
        : link_matches \in {The({LINK_PATTERN_findall(content)
                                 : content \in {Line_content(raw)}})} })

\* Line.tag_links: of each match the second group if it is not empty, else
\* the first.
Line_tag_links(raw) ==
    The({ [i \in 1..Len(tag_link_matches) |->
              LET as_link == tag_link_matches[i][1]
                  as_word == tag_link_matches[i][2]
              IN  DirectLink_as_tag(IF as_word # <<>> THEN as_word ELSE as_link)]
        : tag_link_matches \in {The({TAG_LINK_PATTERN_findall(content)
                                     : content \in {Line_content(raw)}})} })

\* Line.block_links: [ok, value]; uuid.UUID raises ValueError on the first
\* target that is no UUID.
Line_block_links(raw) ==
    The({ IF \A i \in 1..Len(targets) : targets[i].ok
          THEN [ok |-> TRUE,
                value |-> [i \in 1..Len(targets) |-> [target |-> targets[i].value]]]
          ELSE [ok |-> FALSE, value |-> <<>>]
        : targets \in {The({ [i \in 1..Len(link_matches) |-> UUID(link_matches[i])]
                           : link_matches \in {The({BLOCK_LINK_PATTERN_findall(content)
                                                    : content \in {Line_content(raw)}})} })} })

\* ------------------------------------------------------------ property.py

\* Property.loads(text): text.lstrip().split(":: ") unpacked into exactly two
\* names; any other number of pieces is a ValueError.
Property_loads(text) ==
    The({ IF Len(parts) = 2
          THEN [ok |-> TRUE,
                value |-> [raw |-> text, field |-> parts[1], value |-> parts[2]]]
          ELSE [ok |-> FALSE, value |-> None]
        : parts \in {The({Split(stripped, MARK_PROPERTY)
                          : stripped \in {LStrip(text, WHITESPACE)}})} })

\* Property.as_list without the duplicates of the list.
RECURSIVE Property_as_list_unique(_)
Property_as_list_unique(p) ==
    The({ IF Len(pieces) <= 1 THEN pieces
          ELSE The({ IF \E i \in 1..Len(front) : front[i] = pieces[Len(pieces)]
                     THEN front
                     ELSE Append(front, pieces[Len(pieces)])
                   : front \in {Property_as_list_unique(
                                    [p EXCEPT !.value =
                                        Join(SubSeq(pieces, 1, Len(pieces) - 1), ",")])} })
        : pieces \in {The({ [i \in 1..Len(parts) |-> Strip(parts[i], WHITESPACE)]
                          : parts \in {Split(p.value, <<",">>)} })} })

\* Property.as_list: [value.strip() for value in self.value.split(",")]
Property_as_list(p) ==
    The({ [i \in 1..Len(parts) |-> Strip(parts[i], WHITESPACE)]
        : parts \in {Split(p.value, <<",">>)} })

\* Line.as_property
Line_as_property(raw) ==
    IF ~Line_is_property(raw) THEN [ok |-> FALSE, value |-> None]
    ELSE The({Property_loads(content) : content \in {Line_content(raw)}})

\* --------------------------------------------------------------- block.py

\* The messages of the errors from_lines and from_text raise.
ERR_DEPTH_MISMATCH == "Line depth mismatch in Block.from_lines"

ERR_UNOPENED_DIRECTIVE == "Closing an unopened directive"

ERR_UNCLOSED_CODE == "unclosed code block"

ERR_UNCLOSED_DIRECTIVE == "Unclosed directive"

\* BlockDepthError, raised by BlockTree.from_text.
ERR_BLOCK_DEPTH == "First line in block may not be branch continuation"

\* The ValueError of the tuple unpacking in Property.loads.
ERR_PROPERTY_UNPACK == "too many values to unpack"

\* The ValueError of Property.loads on a text without a separator.
ERR_PROPERTY_UNPACK_FEW == "not enough values to unpack"

\* The IndexError of Line.directive on a marker line without "_".
ERR_DIRECTIVE_INDEX == "list index out of range"

NoError == ""

\* toggle
toggle(value) == ~value

\* A variant of DictSet that keeps the entry a key already has.
DictSet_keeps_first(d, key, value) ==
    [k \in DOMAIN d \cup {key} |-> IF k \in DOMAIN d THEN d[k] ELSE value]

\* dict[key] = value
DictSet(d, key, value) == [k \in DOMAIN d \cup {key} |-> IF k = key THEN value ELSE d[k]]

\* {}
EmptyDict == [k \in {} |-> None]

\* from_lines, the locals as the loop starts.
from_lines_start ==
    [has_code_block |-> FALSE, in_code_block |-> FALSE, in_directive |-> FALSE,
     directive |-> <<>>, properties |-> EmptyDict, error |-> NoError]

\* A variant of from_lines_depth_differs that lets deeper lines pass.
from_lines_depth_differs_shallower(line, depth) == Line_depth(line) < depth

\* from_lines, the depth check that opens the loop body.
from_lines_depth_differs(line, depth) == Line_depth(line) # depth

\* from_lines, the code fence step of the loop body.
from_lines_fence(st, line) ==
    IF Line_is_code_fence(line)
    THEN [st EXCEPT !.has_code_block = TRUE, !.in_code_block = toggle(st.in_code_block)]
    ELSE st

\* from_lines, the property / directive opener / directive closer chain of
\* the loop body, on the locals the fence step left.
from_lines_markers(st, line) ==
    IF Line_is_property(line) /\ ~st.in_code_block
    THEN The({ IF prop.ok
               THEN [st EXCEPT !.properties = DictSet(st.properties, prop.value.field, prop.value)]
               ELSE [st EXCEPT !.error = ERR_PROPERTY_UNPACK]
             : prop \in {Line_as_property(line)} })
    ELSE IF Line_is_directive_opener(line)
    THEN The({ IF directive.ok
               THEN [st EXCEPT !.in_directive = TRUE, !.directive = directive.value]
               ELSE [st EXCEPT !.in_directive = TRUE, !.error = ERR_DIRECTIVE_INDEX]
             : directive \in {Line_directive(line)} })
    ELSE IF Line_is_directive_closer(line)
    THEN IF ~st.in_directive
         THEN [st EXCEPT !.error = ERR_UNOPENED_DIRECTIVE]
         ELSE [st EXCEPT !.in_directive = FALSE]
    ELSE st

\* from_lines, one pass of the loop body.
from_lines_step(st, line, depth) ==
    IF from_lines_depth_differs(line, depth)
    THEN [st EXCEPT !.error = ERR_DEPTH_MISMATCH]
    ELSE The({from_lines_markers(fenced, line) : fenced \in {from_lines_fence(st, line)}})

\* from_lines, the loop over the first n lines: the locals after them, or at
\* the first line that raised.
RECURSIVE from_lines_loop(_, _)
from_lines_loop(ls, n) ==
    IF n = 0 THEN from_lines_start
    ELSE The({ IF st.error # NoError THEN st
               ELSE from_lines_step(st, ls[n], depth)
             : st \in {from_lines_loop(ls, n - 1)}, depth \in {Line_depth(ls[1])} })

\* A variant of from_lines_end_error without the check of in_directive.
from_lines_end_error_code_only(st) ==
    IF st.in_code_block THEN ERR_UNCLOSED_CODE ELSE NoError

\* from_lines, the two checks after the loop.
from_lines_end_error(st) ==
    IF st.in_code_block THEN ERR_UNCLOSED_CODE
    ELSE IF st.in_directive THEN ERR_UNCLOSED_DIRECTIVE
    ELSE NoError

\* Block(lines=..., properties=..., has_code_block=..., directive=...).  The
\* fields parent and branches, which refer to other Block objects, are kept
\* per block in block_parent and block_branches.
Block(ls, properties, has_code_block, directive) ==
    [lines |-> ls, properties |-> properties, has_code_block |-> has_code_block,
     directive |-> directive]

\* No Block: what a raising call leaves.
NoBlock == Block(<<>>, EmptyDict, FALSE, <<>>)

\* from_lines(lines), for a non-empty list: [error, block].
from_lines(ls) ==
    The({ IF st.error # NoError THEN [error |-> st.error, block |-> NoBlock]
          ELSE IF from_lines_end_error(st) # NoError
          THEN [error |-> from_lines_end_error(st), block |-> NoBlock]
          ELSE [error |-> NoError,
                block |-> Block(ls, st.properties, st.has_code_block, st.directive)]
        : st \in {from_lines_loop(ls, Len(ls))} })

\* Block.depth
Block_depth(b) == Line_depth(b.lines[1])

\* Block._id = None
NoId == <<>>

\* The ValueError of uuid.UUID on a text that is no UUID.
ERR_BAD_UUID == "badly formed hexadecimal UUID string"

\* The dict key "id".
ID_FIELD == <<"i", "d">>

\* The name of the tags property.
TAGS_FIELD == <<"t", "a", "g", "s">>

\* The hex digits, by value.
HEX_BY_VALUE ==
    <<"0", "1", "2", "3", "4", "5", "6", "7", "8", "9", "a", "b", "c", "d", "e", "f">>

\* uuid.uuid4(), the n-th call: a random UUID of version 4, taken to differ
\* from every id handed out before and from every id a property spells (the
\* chance of a collision of 122 random bits is left out).  Digit 13 is the
\* version, digit 17 the variant, the last two digits count the calls.
uuid4(n) ==
    [i \in 1..32 |-> IF i = 13 THEN "4"
                     ELSE IF i = 17 THEN "8"
                     ELSE IF i = 31 THEN HEX_BY_VALUE[((n \div 16) % 16) + 1]
                     ELSE IF i = 32 THEN HEX_BY_VALUE[(n % 16) + 1]
                     ELSE "0"]

\* A variant of Block_id whose generated ids do not advance: every call of
\* uuid.uuid4 gives the same id.
Block_id_not_fresh(b, _id, count) ==
    IF _id = NoId
    THEN IF ID_FIELD \in DOMAIN b.properties
         THEN The({ IF parsed.ok
                    THEN [ok |-> TRUE, _id |-> parsed.value, count |-> count,
                          value |-> parsed.value]
                    ELSE [ok |-> FALSE, _id |-> _id, count |-> count, value |-> NoId]
                  : parsed \in {UUID(b.properties[ID_FIELD].value)} })
         ELSE [ok |-> TRUE, _id |-> uuid4(1), count |-> count + 1, value |-> uuid4(1)]
    ELSE [ok |-> TRUE, _id |-> _id, count |-> count, value |-> _id]

\* Block.id, read on a block whose _id is _id after count calls of
\* uuid.uuid4: [ok, _id, count, value], the _id and the count the read leaves
\* and the value it returns; ok is FALSE when uuid.UUID raises.
Block_id(b, _id, count) ==
    IF _id = NoId
    THEN IF ID_FIELD \in DOMAIN b.properties
         THEN The({ IF parsed.ok
                    THEN [ok |-> TRUE, _id |-> parsed.value, count |-> count,
                          value |-> parsed.value]
                    ELSE [ok |-> FALSE, _id |-> _id, count |-> count, value |-> NoId]
                  : parsed \in {UUID(b.properties[ID_FIELD].value)} })
         ELSE [ok |-> TRUE, _id |-> uuid4(count + 1), count |-> count + 1,
               value |-> uuid4(count + 1)]
    ELSE [ok |-> TRUE, _id |-> _id, count |-> count, value |-> _id]

\* A variant of Block_content_lines that also leaves out code fence lines.
Block_content_lines_unfenced(b) ==
    SelectSeq(b.lines, LAMBDA line : Line_is_content(line) /\ ~Line_is_code_fence(line))

\* Block.content: the lines that are joined.
Block_content_lines(b) == SelectSeq(b.lines, Line_is_content)

\* Block.content
Block_content(b) ==
    The({ The({Join(contents, NEWLINE)
               : contents \in {[i \in 1..Len(kept) |-> Line_content(kept[i])]}})
        : kept \in {Block_content_lines(b)} })

\* Block.raw
Block_raw(b) == Join(b.lines, NEWLINE)

\* A variant of in_code_at that never toggles.
in_code_at_unchanged(line, in_code) == in_code

\* Block.links, Block.tag_links, Block.block_links: in_code after the fence
\* toggle at a line.
in_code_at(line, in_code) == IF Line_is_code_fence(line) THEN ~in_code ELSE in_code

\* Block.links, from line i on.
RECURSIVE Block_links_loop(_, _, _)
Block_links_loop(ls, i, in_code) ==
    IF i > Len(ls) THEN <<>>
    ELSE The({ (IF ~now THEN Line_links(ls[i]) ELSE <<>>)
               \o Block_links_loop(ls, next, now)
             : now \in {in_code_at(ls[i], in_code)}, next \in {i + 1} })

\* Block.links
Block_links(b) == The({Block_links_loop(ls, 1, FALSE) : ls \in {b.lines}})

\* Block.tag_links, from line i on.
RECURSIVE Block_tag_links_loop(_, _, _)
Block_tag_links_loop(ls, i, in_code) ==
    IF i > Len(ls) THEN <<>>
    ELSE The({ (IF ~now THEN Line_tag_links(ls[i]) ELSE <<>>)
               \o Block_tag_links_loop(ls, next, now)
             : now \in {in_code_at(ls[i], in_code)}, next \in {i + 1} })

\* Block.tag_links
Block_tag_links(b) == The({Block_tag_links_loop(ls, 1, FALSE) : ls \in {b.lines}})

\* Block.block_links, from line i on: [ok, value]; a line outside code whose
\* block link target is no UUID raises ValueError.
RECURSIVE Block_block_links_loop(_, _, _)
Block_block_links_loop(ls, i, in_code) ==
    IF i > Len(ls) THEN [ok |-> TRUE, value |-> <<>>]
    ELSE The({ The({ IF here.ok /\ rest.ok
                     THEN [ok |-> TRUE, value |-> here.value \o rest.value]
                     ELSE [ok |-> FALSE, value |-> <<>>]
                   : here \in {IF ~now THEN Line_block_links(ls[i])
                               ELSE [ok |-> TRUE, value |-> <<>>]},
                     rest \in {Block_block_links_loop(ls, next, now)} })
             : now \in {in_code_at(ls[i], in_code)}, next \in {i + 1} })

\* Block.block_links
Block_block_links(b) == The({Block_block_links_loop(ls, 1, FALSE) : ls \in {b.lines}})

\* Block.parent of a block that has none (parent: Block | None = None); the
\* blocks of a list are named by their positions 1..n.
NoParent == 0

\* A variant of find_branches_passes with the comparison turned around.
find_branches_passes_flipped(parent_depth, depth) == parent_depth <= depth

\* find_branches, the test of the while loop: whether the walk leaves
\* branch_parent for its parent.
find_branches_passes(parent_depth, depth) == parent_depth >= depth

\* find_branches, the while loop: from branch_parent up the parent links to
\* the first block the test keeps, NoParent if there is none.
RECURSIVE find_branches_walk(_, _, _, _)
find_branches_walk(bs, parent, branch_parent, depth) ==
    IF branch_parent # NoParent
       /\ find_branches_passes(Block_depth(bs[branch_parent]), depth)
    THEN The({find_branches_walk(bs, parent, up, depth) : up \in {parent[branch_parent]}})
    ELSE branch_parent

\* find_branches, the choice of branch_parent for block i: the walk starts at
\* the last block of the result list.
find_branches_parent(bs, t, i) ==
    IF t.branches # <<>>
    THEN The({find_branches_walk(bs, t.parent, t.branches[Len(t.branches)], depth)
              : depth \in {Block_depth(bs[i])}})
    ELSE NoParent

\* A variant of find_branches_step that puts a block that has a
\* branch_parent on the result list as well.
find_branches_step_also_root(bs, t, i) ==
    The({ IF branch_parent # NoParent
          THEN [t EXCEPT !.block_branches[branch_parent] = Append(@, i),
                         !.branches = Append(@, i)]
          ELSE [t EXCEPT !.branches = Append(@, i)]
        : branch_parent \in {find_branches_parent(bs, t, i)} })

\* find_branches, one pass of the loop body for block i: the block is
\* appended to the branches of branch_parent, or to the result list.  No
\* statement assigns Block.parent.
find_branches_step(bs, t, i) ==
    The({ IF branch_parent # NoParent
          THEN [t EXCEPT !.block_branches[branch_parent] = Append(@, i)]
          ELSE [t EXCEPT !.branches = Append(@, i)]
        : branch_parent \in {find_branches_parent(bs, t, i)} })

\* find_branches, the loop over the first n blocks.
RECURSIVE find_branches_loop(_, _)
find_branches_loop(bs, n) ==
    IF n = 0
    THEN [branches |-> <<>>,
          block_branches |-> [i \in 1..Len(bs) |-> <<>>],
          parent |-> [i \in 1..Len(bs) |-> NoParent]]
    ELSE The({find_branches_step(bs, t, n) : t \in {find_branches_loop(bs, n - 1)}})

\* find_branches(blocks)
find_branches(bs) == find_branches_loop(bs, Len(bs))

\* A variant of from_text_closes_run that does not ask for an opener.
from_text_closes_run_any_line(line, block_lines) == block_lines # <<>>

\* BlockTree.from_text, the loop: whether the line closes the current run.
from_text_closes_run(line, block_lines) ==
    Line_is_block_opener(line) /\ block_lines # <<>>

\* A variant of from_text_raises_depth that does not ask for an empty run.
from_text_raises_depth_any_run(line, block_lines) ==
    ~Line_is_block_opener(line) /\ Line_depth(line) > 0

\* BlockTree.from_text, the loop: whether the line raises BlockDepthError.
from_text_raises_depth(line, block_lines) ==
    ~Line_is_block_opener(line) /\ Line_depth(line) > 0 /\ block_lines = <<>>

\* BlockTree.from_text, one pass of the loop body: a closed run is built and
\* the line opens the next one, or the line raises, or it joins the run.
from_text_step(st, line) ==
    IF from_text_closes_run(line, st.block_lines)
    THEN The({ IF built.error # NoError THEN [st EXCEPT !.error = built.error]
               ELSE [st EXCEPT !.blocks = Append(@, built.block), !.block_lines = <<line>>]
             : built \in {from_lines(st.block_lines)} })
    ELSE IF from_text_raises_depth(line, st.block_lines)
    THEN [st EXCEPT !.error = ERR_BLOCK_DEPTH]
    ELSE [st EXCEPT !.block_lines = Append(@, line)]

\* BlockTree.from_text, the loop over the first n parsed lines.
RECURSIVE from_text_loop(_, _)
from_text_loop(parsed_lines, n) ==
    IF n = 0 THEN [blocks |-> <<>>, block_lines |-> <<>>, error |-> NoError]
    ELSE The({ IF st.error # NoError THEN st ELSE from_text_step(st, parsed_lines[n])
             : st \in {from_text_loop(parsed_lines, n - 1)} })

\* BlockTree.from_text, the parsed lines of a source text.
from_text_parsed_lines(text) ==
    The({[i \in 1..Len(split) |-> parse_line(split[i])] : split \in {SplitLines(text)}})

\* BlockTree.from_text, the run left when the loop ends, built if there is one.
from_text_last(st) ==
    IF st.error # NoError THEN [error |-> st.error, blocks |-> <<>>]
    ELSE IF st.block_lines # <<>>
    THEN The({ IF built.error # NoError THEN [error |-> built.error, blocks |-> <<>>]
               ELSE [error |-> NoError, blocks |-> Append(st.blocks, built.block)]
             : built \in {from_lines(st.block_lines)} })
    ELSE [error |-> NoError, blocks |-> st.blocks]

\* BlockTree.from_text up to the call of find_branches: [error, blocks].
from_text_blocks(text) ==
    IF Len(text) = 0
    THEN The({ [error |-> built.error,
                blocks |-> IF built.error = NoError THEN <<built.block>> ELSE <<>>]
             : built \in {from_lines(<<parse_line(text)>>)} })
    ELSE The({ The({from_text_last(st) : st \in {from_text_loop(parsed_lines, Len(parsed_lines))}})
             : parsed_lines \in {from_text_parsed_lines(text)} })

\* Block.tags
Block_tags(b) ==
    IF TAGS_FIELD \notin DOMAIN b.properties THEN <<>>
    ELSE Property_as_list(b.properties[TAGS_FIELD])

\* ----------------------------------------------------------------- page.py

NAMESPACE_SELF == <<".">>

\* Page(name, blocks, properties, is_placeholder); blocks lists the Block
\* objects by their place in the heap of Block objects.
Page(name, page_blocks, properties, is_placeholder) ==
    [name |-> name, blocks |-> page_blocks, properties |-> properties,
     is_placeholder |-> is_placeholder]

\* The separator of the parts of a path.
PATH_SEP == "/"

\* Path(name).root on a POSIX system: "//" for a name that begins with
\* exactly two separators, "/" for any other name that begins with one, and
\* nothing for a relative name.
PurePath_root(name) ==
    IF StartsWith(name, <<PATH_SEP, PATH_SEP>>) /\ ~StartsWith(name, <<PATH_SEP, PATH_SEP, PATH_SEP>>)
    THEN <<PATH_SEP, PATH_SEP>>
    ELSE IF StartsWith(name, <<PATH_SEP>>) THEN <<PATH_SEP>>
    ELSE <<>>

\* The parts of Path(name) below its root: the pieces between separators,
\* without the empty ones and the "." ones.
PurePath_parts(name) ==
    SelectSeq(Split(name, <<PATH_SEP>>), LAMBDA part : part # <<>> /\ part # <<".">>)

\* A variant of Page_namespace without parents: every page is in the
\* self-namespace.
Page_namespace_flat(name) == NAMESPACE_SELF

\* Page.namespace: str(Path(self.name).parent).  The parent of a path is the
\* path without its last part, the parent of a root is the root itself, and
\* a path without root and parts is written ".".
Page_namespace(name) ==
    The({ IF root = <<>> /\ Len(parts) <= 1 THEN NAMESPACE_SELF
          ELSE root \o Join(SubSeq(parts, 1, Len(parts) - 1), PATH_SEP)
        : root \in {PurePath_root(name)}, parts \in {PurePath_parts(name)} })

\* Page.links: the links of the blocks of the page, in order.
Page_links(page, heap) ==
    Flatten([i \in 1..Len(page.blocks) |-> Block_links(heap[page.blocks[i]])])

\* Page.tags
Page_tags(page) ==
    IF TAGS_FIELD \notin DOMAIN page.properties THEN <<>>
    ELSE The({ [i \in 1..Len(parts) |-> Strip(parts[i], WHITESPACE)]
             : parts \in {Split(page.properties[TAGS_FIELD].value, <<",">>)} })

\* ---------------------------------------------------------------- graph.py

ERR_DUPLICATE_PAGE == "DuplicatePageNameError"

\* The elements of a list, as a set.
Elements(q) == {q[i] : i \in 1..Len(q)}

\* A Graph with the Block objects its pages hold: pages and blocks are the
\* fields of the Graph, heap the Block objects, ids their _id fields, count
\* the number of uuid4 calls made, error the error of the call under way.
GraphState(pages, graph_blks, heap, ids, count) ==
    [pages |-> pages, blocks |-> graph_blks, heap |-> heap, ids |-> ids,
     count |-> count, error |-> NoError]

\* A variant of Graph_register that keeps the entries of a graph that has
\* blocks already.
Graph_register_when_empty(graph_blks, key, obj) ==
    IF DOMAIN graph_blks = {} THEN DictSet(graph_blks, key, obj) ELSE graph_blks

\* add_page: self.blocks[block_id] = block
Graph_register(graph_blks, key, obj) == DictSet(graph_blks, key, obj)

\* add_page, the first loop over page.blocks, after n blocks: block.id is
\* read (and raises on an id property that is no UUID), the block is
\* registered, and the tag link targets without a page are gathered.
RECURSIVE add_page_blocks(_, _, _)
add_page_blocks(g, page, n) ==
    IF n = 0 THEN [g |-> g, needed |-> {}]
    ELSE The({ IF walked.g.error # NoError THEN walked
               ELSE The({ IF ~read.ok
                          THEN [walked EXCEPT !.g.error = ERR_BAD_UUID]
                          ELSE [g |-> [walked.g EXCEPT
                                          !.ids[page.blocks[n]] = read._id,
                                          !.count = read.count,
                                          !.blocks = Graph_register(@, read.value, page.blocks[n])],
                                needed |-> walked.needed \cup
                                    {tag_link.target :
                                        tag_link \in {l \in Elements(Block_tag_links(g.heap[page.blocks[n]])) :
                                                         l.target \notin DOMAIN g.pages}}]
                        : read \in {Block_id(g.heap[page.blocks[n]],
                                             walked.g.ids[page.blocks[n]],
                                             walked.g.count)} })
             : walked \in {add_page_blocks(g, page, n - 1)} })

\* A variant of add_page_names that also gathers names that have a page.
add_page_names_unfiltered(g, page) ==
    (IF Page_namespace(page.name) # NAMESPACE_SELF THEN {Page_namespace(page.name)} ELSE {})
    \cup {link.target : link \in Elements(Page_links(page, g.heap))}
    \cup Elements(Page_tags(page))
    \cup DOMAIN page.properties
    \cup UNION {DOMAIN g.heap[page.blocks[i]].properties : i \in 1..Len(page.blocks)}

\* add_page, the names gathered outside the first loop over the blocks: the
\* namespace, the link targets, the tags of the page, the names of the
\* properties of the page and of its blocks, each if it has no page.
add_page_names(g, page) ==
    { name \in
        (IF Page_namespace(page.name) # NAMESPACE_SELF THEN {Page_namespace(page.name)} ELSE {})
        \cup {link.target : link \in Elements(Page_links(page, g.heap))}
        \cup Elements(Page_tags(page))
        \cup DOMAIN page.properties
        \cup UNION {DOMAIN g.heap[page.blocks[i]].properties : i \in 1..Len(page.blocks)}
      : name \notin DOMAIN g.pages }

\* A variant of add_page_duplicate that takes no page for a duplicate.
add_page_duplicate_never(g, page) == FALSE

\* add_page, the test that raises DuplicatePageNameError: the name is bound
\* to a page that is no placeholder.
add_page_duplicate(g, page) ==
    page.name \in DOMAIN g.pages /\ ~g.pages[page.name].is_placeholder

\* Graph.add_page and Graph.add_placeholders. The list placeholders_needed is
\* kept as the set of its names: add_placeholder of a name that has a
\* placeholder puts an equal placeholder in its place, so neither the order
\* nor a repeated name changes the graph that results.
RECURSIVE add_page(_, _)
RECURSIVE add_placeholders(_, _)
add_page(g, page) ==
    IF add_page_duplicate(g, page)
    THEN [g EXCEPT !.error = ERR_DUPLICATE_PAGE]
    ELSE The({ The({ IF walked.g.error # NoError THEN walked.g
                     ELSE add_placeholders(walked.g, add_page_names(bound, page) \cup walked.needed)
                   : walked \in {add_page_blocks(bound, page, Len(page.blocks))} })
             : bound \in {[g EXCEPT !.pages = DictSet(@, page.name, page)]} })

add_placeholders(g, page_names) ==
    IF page_names = {} THEN g
    ELSE The({ The({ IF added.error # NoError THEN added
                     ELSE add_placeholders(added, page_names \ {page_name})
                   : added \in {add_page(g, Page(page_name, <<>>, EmptyDict, TRUE))} })
             : page_name \in {The(page_names)} })

\* Graph.add_placeholder
add_placeholder(g, page_name) == add_page(g, Page(page_name, <<>>, EmptyDict, TRUE))

\* Graph.add_placeholders called with a list, its first n names done in the
\* order of the list; a call of add_placeholder that raises ends the loop.
RECURSIVE add_placeholders_list(_, _, _)
add_placeholders_list(g, page_names, n) ==
    IF n = 0 THEN g
    ELSE The({ IF done.error # NoError THEN done
               ELSE add_placeholder(done, page_names[n])
             : done \in {add_placeholders_list(g, page_names, n - 1)} })

\* ------------------------------------------------------ link.py: ResourceLink

PATH_ASSETS == <<".", ".", "/", "a", "s", "s", "e", "t", "s">>

ERR_RESOURCE_TARGET == "ResourceLink target must be a valid URL or file in assets folder."

\* The letters, the characters a URL scheme starts with.
SCHEME_START ==
    WORD_CHARS \ {"_", "0", "1", "2", "3", "4", "5", "6", "7", "8", "9"}

\* The characters of a URL scheme after the first.
SCHEME_CHARS == (WORD_CHARS \ {"_"}) \cup {"+", "-", "."}

\* The schemes whose URLs need a host.
HOST_SCHEMES ==
    { <<"h", "t", "t", "p">>, <<"h", "t", "t", "p", "s">>, <<"f", "t", "p">>,
      <<"w", "s">>, <<"w", "s", "s">> }

\* AnyUrl(v) does not raise: v starts with a scheme and ":", and after the
\* slashes that follow a scheme that needs a host there is a host. (The
\* part of the URL grammar that tells the sample targets apart.)
AnyUrl_ok(v) ==
    The({ /\ colon > 1
          /\ v[1] \in SCHEME_START
          /\ \A i \in 2..(colon - 1) : v[i] \in SCHEME_CHARS
          /\ SubSeq(v, 1, colon - 1) \in HOST_SCHEMES =>
                 LStrip(DropFirst(v, colon), {"/"}) # <<>>
        : colon \in {FindFrom(v, <<":">>, 1)} })

\* ResourceLink.target_is_asset_file_or_uri does not raise.
ResourceLink_target_ok(v) == StartsWith(v, PATH_ASSETS) \/ AnyUrl_ok(v)

\* ResourceLink(target, link_text, is_embed): [ok, value]; the fields are two
\* strings and a bool, of which only target has a validator.
ResourceLink(target, link_text, is_embed) ==
    IF ResourceLink_target_ok(target)
    THEN [ok |-> TRUE,
          value |-> [target |-> target, link_text |-> link_text, is_embed |-> is_embed]]
    ELSE [ok |-> FALSE, value |-> None]

\* ResourceLink.is_asset_file
ResourceLink_is_asset_file(link) == StartsWith(link.target, PATH_ASSETS)

\* --------------------------------------------- line.py: Line.resource_links

\* The place of the last "[" of s from position i up to before position mid,
\* 0 if there is none.
LastOpen(s, i, mid) ==
    IF \E j \in i..(mid - 1) : s[j] = "["
    THEN CHOOSE j \in i..(mid - 1) : s[j] = "[" /\ \A k \in (j + 1)..(mid - 1) : s[k] # "["
    ELSE 0

\* The matches of the markdown link syntax [label](target), and of its embed
\* form ![label](target), in s at or after position i: of each match
\* <<is_embed, label, target>>.
RECURSIVE RESOURCE_LINK_PATTERN_from(_, _)
RESOURCE_LINK_PATTERN_from(s, i) ==
    The({ IF mid = 0 THEN <<>>
          ELSE The({ IF open = 0 \/ close = 0
                     THEN RESOURCE_LINK_PATTERN_from(s, mid + 1)
                     ELSE << <<open > 1 /\ s[open - 1] = "!",
                               SubSeq(s, open + 1, mid - 1),
                               SubSeq(s, mid + 2, close - 1)>> >>
                          \o RESOURCE_LINK_PATTERN_from(s, close + 1)
                   : open \in {LastOpen(s, i, mid)},
                     close \in {FindFrom(s, <<")">>, mid + 2)} })
        : mid \in {FindFrom(s, <<"]", "(">>, i)} })

\* Line.resource_links: [ok, value], a ResourceLink for every match in the
\* content of the line; an empty label or a target that is neither an asset
\* path nor a URI is a construction error.
Line_resource_links(raw) ==
    The({ IF \E i \in 1..Len(made) : ~made[i].ok \/ made[i].value.link_text = <<>>
          THEN [ok |-> FALSE, value |-> <<>>]
          ELSE [ok |-> TRUE, value |-> [i \in 1..Len(made) |-> made[i].value]]
        : made \in {The({ [i \in 1..Len(found) |->
                              ResourceLink(found[i][3], found[i][2], found[i][1])]
                        : found \in {RESOURCE_LINK_PATTERN_from(Line_content(raw), 1)} })} })

\* Block.resource_links, from line i on: [ok, value].
RECURSIVE Block_resource_links_loop(_, _, _)
Block_resource_links_loop(ls, i, in_code) ==
    IF i > Len(ls) THEN [ok |-> TRUE, value |-> <<>>]
    ELSE The({ IF ~here.ok THEN here
               ELSE The({ IF ~rest.ok THEN rest
                          ELSE [ok |-> TRUE, value |-> here.value \o rest.value]
                        : rest \in {Block_resource_links_loop(ls, next, now)} })
             : now \in {in_code_at(ls[i], in_code)}, next \in {i + 1},
               here \in {IF in_code_at(ls[i], in_code) THEN [ok |-> TRUE, value |-> <<>>]
                         ELSE Line_resource_links(ls[i])} })

\* Block.resource_links
Block_resource_links(b) == The({Block_resource_links_loop(ls, 1, FALSE) : ls \in {b.lines}})

\* ------------------------------------------------------- graph_exporter.py

\* str(uuid.UUID): the 32 digits in groups of 8, 4, 4, 4 and 12.
UUID_str(u) ==
    SubSeq(u, 1, 8) \o <<"-">> \o SubSeq(u, 9, 12) \o <<"-">> \o SubSeq(u, 13, 16)
    \o <<"-">> \o SubSeq(u, 17, 20) \o <<"-">> \o SubSeq(u, 21, 32)

\* str(block.id) of the block at place b of the heap.  The blocks of the
\* pages of a graph had their id read in add_page, so the read returns the
\* id kept in _id and changes nothing.
Graph_block_id_str(g, b) == UUID_str(Block_id(g.heap[b], g.ids[b], g.count).value)

\* One turn of the loop over page.blocks: the block is noted in
\* block_branches_seen as the newest of its depth, and gets a row if a block
\* was seen at the depth one less.
block_branches_turn(st, id_str, block_depth, position) ==
    The({ [seen |-> seen,
           rows |-> IF (block_depth - 1) \in DOMAIN seen
                    THEN Append(st.rows, [uuid |-> id_str, parent |-> seen[block_depth - 1],
                                          position |-> position, depth |-> block_depth])
                    ELSE st.rows]
        : seen \in {DictSet(st.seen, block_depth, id_str)} })

\* The loop over the first n blocks of a page, with an empty
\* block_branches_seen at its start: [seen, rows].
RECURSIVE block_branches_page(_, _, _)
block_branches_page(g, page, n) ==
    IF n = 0 THEN [seen |-> EmptyDict, rows |-> <<>>]
    ELSE The({ block_branches_turn(st, Graph_block_id_str(g, page.blocks[n]),
                                   Block_depth(g.heap[page.blocks[n]]), n - 1)
             : st \in {block_branches_page(g, page, n - 1)} })

\* GraphExporter.block_branches: the rows of the pages, page after page.
\* page_names lists the keys of graph.pages whose pages hold blocks, in the
\* order of the dict.
GraphExporter_block_branches(g, page_names) ==
    Flatten([i \in 1..Len(page_names) |->
                The({ block_branches_page(g, page, Len(page.blocks)).rows
                    : page \in {g.pages[page_names[i]]} })])

\* ----------------------------------------------- graph.py: load_graph_blocks

\* The UnboundLocalError of reading a local variable that was never assigned.
ERR_UNBOUND_LOCAL == "UnboundLocalError"

\* The tables of load_graph_blocks, empty.
NoTables == [branches |-> <<>>, links |-> <<>>, resource_links |-> <<>>, tag_links |-> <<>>]

\* load_graph_blocks before its loops: empty tables, the loop variable link
\* not bound.
load_graph_blocks_start ==
    [tables |-> NoTables, seen |-> EmptyDict,
     link |-> [bound |-> FALSE, target |-> <<>>], error |-> NoError]

\* The rows for the tag links of a block: one row for each tag link, its
\* target read from the variable link.
load_graph_blocks_tag_rows(id_str, block_tag_links, link) ==
    [i \in 1..Len(block_tag_links) |-> [source |-> id_str, target |-> link.target]]

\* One turn of the loop over page.blocks: the branch row, the rows of the
\* direct links (which leave the last link of the block in link), the rows
\* of the resource links, and the rows of the tag links.
load_graph_blocks_turn(st, g, b, position) ==
    The({ IF ~resources.ok THEN [st EXCEPT !.error = ERR_RESOURCE_TARGET]
          ELSE IF tags # <<>> /\ ~link.bound THEN [st EXCEPT !.error = ERR_UNBOUND_LOCAL]
          ELSE [tables |->
                   [branches |-> branch.rows,
                    links |-> st.tables.links \o
                        [i \in 1..Len(direct) |-> [source |-> id_str, target |-> direct[i].target]],
                    resource_links |-> st.tables.resource_links \o
                        [i \in 1..Len(resources.value) |->
                            [source |-> id_str, target |-> resources.value[i].target,
                             label |-> resources.value[i].link_text]],
                    tag_links |-> st.tables.tag_links \o load_graph_blocks_tag_rows(id_str, tags, link)],
                seen |-> branch.seen,
                link |-> link,
                error |-> NoError]
        : id_str \in {Graph_block_id_str(g, b)},
          branch \in {block_branches_turn([seen |-> st.seen, rows |-> st.tables.branches],
                                          Graph_block_id_str(g, b), Block_depth(g.heap[b]), position)},
          direct \in {Block_links(g.heap[b])},
          link \in {IF Block_links(g.heap[b]) = <<>> THEN st.link
                    ELSE [bound |-> TRUE,
                          target |-> Block_links(g.heap[b])[Len(Block_links(g.heap[b]))].target]},
          resources \in {Block_resource_links(g.heap[b])},
          tags \in {Block_tag_links(g.heap[b])} })

\* The loop over the first n blocks of a page.
RECURSIVE load_graph_blocks_page(_, _, _, _)
load_graph_blocks_page(st, g, page, n) ==
    IF n = 0 THEN [st EXCEPT !.seen = EmptyDict]
    ELSE The({ IF walked.error # NoError THEN walked
               ELSE load_graph_blocks_turn(walked, g, page.blocks[n], n - 1)
             : walked \in {load_graph_blocks_page(st, g, page, n - 1)} })

\* The loop over the first n pages of page_names, the keys of graph.pages
\* whose pages hold blocks, in the order of the dict.
RECURSIVE load_graph_blocks_pages(_, _, _)
load_graph_blocks_pages(g, page_names, n) ==
    IF n = 0 THEN load_graph_blocks_start
    ELSE The({ IF walked.error # NoError THEN walked
               ELSE The({ load_graph_blocks_page(walked, g, page, Len(page.blocks))
                        : page \in {g.pages[page_names[n]]} })
             : walked \in {load_graph_blocks_pages(g, page_names, n - 1)} })

\* load_graph_blocks: [tables, error], the tables branches, links,
\* resource_links and tag_links of the dict it returns.  The other tables
\* are filled from reads of the blocks that these four do not depend on.
load_graph_blocks(g, page_names) ==
    The({ [tables |-> IF st.error = NoError THEN st.tables ELSE NoTables, error |-> st.error]
        : st \in {load_graph_blocks_pages(g, page_names, Len(page_names))} })

\* ------------------------------------------------------------ the inputs

\* Indentation: n indent characters.
Indent(n) == Repeat(MARK_BLOCK_INDENT, n)

\* Sample lines of page text: a flush line, block openers at three depths
\* and continuation lines at two.
TextPool ==
    { <<"a">>,
      <<"-", " ", "a">>,
      <<" ", " ", "b">>,
      Indent(1) \o <<"-", " ", "c">>,
      Indent(1) \o <<" ", " ", "d">>,
      Indent(2) \o <<"-", " ", "e">> }

\* The lists of at most n elements of S.
SeqsUpTo(S, n) == UNION {[1..k -> S] : k \in 0..n}

\* The source texts: at most MaxLines sample lines joined by newlines.
TextInputs == {Join(ls, NEWLINE) : ls \in SeqsUpTo(TextPool, MaxLines)}

\* ------------------------------------------- BlockTree.from_text, as steps

\* The values of the variables a specification leaves alone.
NoProperty == [raw |-> <<>>, field |-> <<>>, value |-> <<>>]

NoResourceLink == [target |-> <<>>, link_text |-> <<>>, is_embed |-> FALSE]

NoPage == [name |-> <<>>, blocks |-> <<>>, properties |-> EmptyDict, is_placeholder |-> FALSE]

Idle ==
    /\ lines = <<>>
    /\ block = NoBlock

IdleTree ==
    /\ source = <<>>
    /\ blocks = <<>>
    /\ tree_branches = <<>>
    /\ block_branches = <<>>
    /\ block_parent = <<>>

IdleIds ==
    /\ block_id = <<>>
    /\ uuid4_count = 0

IdleProperty ==
    /\ prop_text = <<>>
    /\ prop_loaded = NoProperty
    /\ value_list = <<>>

IdleLink == resource_link = NoResourceLink

IdleGraph ==
    /\ parsed_page = NoPage
    /\ graph_pages = EmptyDict
    /\ graph_blocks = EmptyDict

\* No views of a Line.
NoLineView == [content |-> <<>>, depth |-> 0, is_block_opener |-> FALSE]

IdleLine ==
    /\ line_raw = <<>>
    /\ line_view = NoLineView

IdleExport ==
    /\ exporter_branches = <<>>
    /\ loader_tables = NoTables

IdleTwice ==
    /\ parse_runs = <<>>
    /\ field_default = <<>>

IdleRecursion == call_stack = <<>>

IdleLater == IdleExport /\ IdleTwice /\ IdleRecursion

IdleDerived == IdleLine /\ IdleLater

Init ==
    /\ source \in TextInputs
    /\ pc = "start"
    /\ blocks = <<>>
    /\ tree_branches = <<>>
    /\ block_branches = <<>>
    /\ block_parent = <<>>
    /\ error = NoError
    /\ Idle
    /\ IdleIds /\ IdleProperty /\ IdleLink /\ IdleGraph /\ IdleDerived

\* from_text on the empty text: one block from one empty line, which is the
\* tree; find_branches is not called.
FromTextEmpty ==
    /\ pc = "start"
    /\ Len(source) = 0
    /\ \E built \in {from_text_blocks(source)} :
          /\ built.error = NoError
          /\ blocks' = built.blocks
    /\ tree_branches' = <<1>>
    /\ block_branches' = <<(<<>>)>>
    /\ block_parent' = <<NoParent>>
    /\ pc' = "done"
    /\ UNCHANGED <<source, error, lines, block>>
    /\ UNCHANGED <<id_vars, property_vars, link_vars, graph_vars, derived_vars>>

\* from_text on a text whose lines split into runs that all build.
FromTextBlocks ==
    /\ pc = "start"
    /\ Len(source) # 0
    /\ \E built \in {from_text_blocks(source)} :
          /\ built.error = NoError
          /\ blocks' = built.blocks
    /\ pc' = "blocks"
    /\ UNCHANGED <<source, tree_branches, block_branches, block_parent, error, lines, block>>
    /\ UNCHANGED <<id_vars, property_vars, link_vars, graph_vars, derived_vars>>

\* from_text raising: BlockDepthError in the loop, or the ValueError of a
\* from_lines call.
FromTextRaises ==
    /\ pc = "start"
    /\ \E built \in {from_text_blocks(source)} :
          /\ built.error # NoError
          /\ error' = built.error
    /\ pc' = "raised"
    /\ UNCHANGED <<source, blocks, tree_branches, block_branches, block_parent, lines, block>>
    /\ UNCHANGED <<id_vars, property_vars, link_vars, graph_vars, derived_vars>>

\* from_text, the call of find_branches and the return of the tree.
FromTextBranches ==
    /\ pc = "blocks"
    /\ \E t \in {find_branches(blocks)} :
           /\ tree_branches' = t.branches
           /\ block_branches' = t.block_branches
           /\ block_parent' = t.parent
    /\ pc' = "done"
    /\ UNCHANGED <<source, blocks, error, lines, block>>
    /\ UNCHANGED <<id_vars, property_vars, link_vars, graph_vars, derived_vars>>

Next == FromTextEmpty \/ FromTextBlocks \/ FromTextRaises \/ FromTextBranches

Spec == Init /\ [][Next]_vars

\* ------------------------------------------------- claims on from_text

\* The parsed lines from_text walks: those of the text, or the one empty
\* line of the empty text.
ClassifiedLines ==
    IF Len(source) = 0 THEN <<parse_line(source)>> ELSE from_text_parsed_lines(source)

\* The depth of block i of the list.
DepthOf(i) == Block_depth(blocks[i])

\* The nearest block before block i that is less deep, NoParent if none is.
NearestShallower(i) ==
    IF \E j \in 1..(i - 1) : DepthOf(j) < DepthOf(i)
    THEN CHOOSE j \in 1..(i - 1) :
            /\ DepthOf(j) < DepthOf(i)
            /\ \A k \in (j + 1)..(i - 1) : DepthOf(k) >= DepthOf(i)
    ELSE NoParent

\* Whether x is an element of the list q.
InList(x, q) == \E k \in 1..Len(q) : q[k] = x

\* C1 (as claimed): once the tree is assembled, every block is a branch of
\* the nearest preceding block that is strictly less deep, and is in the
\* root list only when no preceding block is less deep.
C1_NearestShallowerIsParent ==
    pc = "done" =>
        \A i \in 1..Len(blocks) :
            IF NearestShallower(i) = NoParent
            THEN InList(i, tree_branches)
            ELSE InList(i, block_branches[NearestShallower(i)])
                 /\ ~InList(i, tree_branches)

\* The blocks are three, the second and third one level deeper than the first.
ParentAndTwoChildren ==
    /\ Len(blocks) = 3
    /\ DepthOf(2) = DepthOf(1) + 1
    /\ DepthOf(3) = DepthOf(1) + 1

\* C2: a block followed by two blocks one level deeper is the only root, and
\* its branches are exactly those two blocks in source order; the two have
\* no branches of their own.
C2_TwoChildrenUnderOneRoot ==
    (pc = "done" /\ ParentAndTwoChildren) =>
        /\ tree_branches = <<1>>
        /\ block_branches[1] = <<2, 3>>
        /\ block_branches[2] = <<>>
        /\ block_branches[3] = <<>>

\* C2, reached: a parent at depth 2 with its two children assembled.
C2_Witness ==
    /\ pc = "done"
    /\ ParentAndTwoChildren
    /\ DepthOf(1) = 2
    /\ block_branches[1] = <<2, 3>>

\* The number of block opener lines among the classified lines.
OpenerCount ==
    Cardinality({i \in 1..Len(ClassifiedLines) : Line_is_block_opener(ClassifiedLines[i])})

\* C3: when from_text has built its blocks, there is one block per block
\* opener line, plus one when the first line is not an opener; every block
\* but the first starts with an opener line and no block holds an opener
\* after its first line; and the line lists of the blocks, concatenated in
\* order, are the classified lines of the source.
C3_RunsSplitAtOpeners ==
    pc \in {"blocks", "done"} =>
        /\ Len(blocks) = OpenerCount
                         + (IF Line_is_block_opener(ClassifiedLines[1]) THEN 0 ELSE 1)
        /\ \A i \in 2..Len(blocks) : Line_is_block_opener(blocks[i].lines[1])
        /\ \A i \in 1..Len(blocks) : \A k \in 2..Len(blocks[i].lines) :
               ~Line_is_block_opener(blocks[i].lines[k])
        /\ Flatten([i \in 1..Len(blocks) |-> blocks[i].lines]) = ClassifiedLines

\* C3, reached: a text whose first line is no opener, split into a one-line
\* block and a block of an opener with its continuation line.
C3_Witness ==
    /\ pc = "done"
    /\ Len(blocks) = 2
    /\ ~Line_is_block_opener(ClassifiedLines[1])
    /\ Len(blocks[2].lines) = 2

\* The first line of the source is a continuation: no opener, depth > 0.
FirstLineIsContinuation ==
    /\ Len(source) # 0
    /\ ~Line_is_block_opener(ClassifiedLines[1])
    /\ Line_depth(ClassifiedLines[1]) > 0

\* C4: from_text raises BlockDepthError exactly when the first line of the
\* source is a continuation line (depth > 0, no opener); whatever the later
\* lines are, no other source raises it.
C4_DepthErrorIffFirstLineContinues ==
    pc # "start" =>
        ((pc = "raised" /\ error = ERR_BLOCK_DEPTH) <=> FirstLineIsContinuation)

\* C4, reached: BlockDepthError on a text of several lines.
C4_Witness ==
    /\ pc = "raised"
    /\ error = ERR_BLOCK_DEPTH
    /\ Len(ClassifiedLines) >= 2

\* ------------------------------------------------- from_lines, as steps

\* A block link target that uuid.UUID accepts: 32 hexadecimal digits.
SampleTarget == [i \in 1..32 |-> IF i % 2 = 1 THEN "a" ELSE "1"]

\* The lines the sample runs are made of, all of depth 1 but one: an opener,
\* a continuation with a page link, a tag and a block link, a code fence that
\* carries a page link, two property lines of one field, a property line
\* with two separators, a directive opener and closer, a directive closer
\* that holds the property separator, and a continuation of depth 2.
LinePool ==
    { <<"-", " ", "a">>,
      <<" ", " ", "b", " ", "[", "[", "T", "]", "]", " ", "#", "t", " ", "(", "(">>
          \o SampleTarget \o <<")", ")">>,
      <<" ", " ">> \o MARK_CODE_FENCE \o <<" ", "[", "[", "F", "]", "]">>,
      <<" ", " ", "k">> \o MARK_PROPERTY \o <<"v">>,
      <<" ", " ", "k">> \o MARK_PROPERTY \o <<"w">>,
      <<" ", " ", "k">> \o MARK_PROPERTY \o <<"v">> \o MARK_PROPERTY \o <<"w">>,
      <<" ", " ">> \o MARK_DIRECTIVE_OPENER \o <<MARK_DIRECTIVE_SPLIT, "Q">>,
      <<" ", " ">> \o MARK_DIRECTIVE_CLOSER \o <<MARK_DIRECTIVE_SPLIT, "Q">>,
      <<" ", " ">> \o MARK_DIRECTIVE_CLOSER \o <<MARK_DIRECTIVE_SPLIT, "Q">>
          \o MARK_PROPERTY \o <<"v">>,
      Indent(1) \o <<" ", " ", "c">> }

\* The runs from_lines is called with: non-empty, at most MaxRun lines.
LineRuns == {[i \in 1..Len(ls) |-> parse_line(ls[i])] : ls \in SeqsUpTo(LinePool, MaxRun) \ {<<>>}}

InitLines ==
    /\ lines \in LineRuns
    /\ pc = "start"
    /\ block = NoBlock
    /\ error = NoError
    /\ source = <<>>
    /\ blocks = <<>>
    /\ tree_branches = <<>>
    /\ block_branches = <<>>
    /\ block_parent = <<>>
    /\ IdleIds /\ IdleProperty /\ IdleLink /\ IdleGraph /\ IdleDerived

\* from_lines returning the Block it built.
FromLinesReturns ==
    /\ pc = "start"
    /\ \E built \in {from_lines(lines)} :
          /\ built.error = NoError
          /\ block' = built.block
    /\ pc' = "done"
    /\ UNCHANGED <<source, blocks, tree_branches, block_branches, block_parent, error, lines>>
    /\ UNCHANGED <<id_vars, property_vars, link_vars, graph_vars, derived_vars>>

\* from_lines raising: in the loop or in the checks after it.
FromLinesRaises ==
    /\ pc = "start"
    /\ \E built \in {from_lines(lines)} :
          /\ built.error # NoError
          /\ error' = built.error
    /\ pc' = "raised"
    /\ UNCHANGED <<source, blocks, tree_branches, block_branches, block_parent, block, lines>>
    /\ UNCHANGED <<id_vars, property_vars, link_vars, graph_vars, derived_vars>>

NextLines == FromLinesReturns \/ FromLinesRaises

SpecLines == InitLines /\ [][NextLines]_vars

\* ------------------------------------------------- claims on from_lines

\* The depth of the first line of the run.
RunDepth == Line_depth(lines[1])

\* Every line of the run has the depth of the first.
UniformDepth == \A i \in 1..Len(lines) : Line_depth(lines[i]) = RunDepth

\* The first line whose depth is not that of the first line.
FirstDiffering == Min({i \in 1..Len(lines) : Line_depth(lines[i]) # RunDepth})

\* The number of code fence lines among the first i lines.
FencesThrough(i) == Cardinality({j \in 1..i : Line_is_code_fence(lines[j])})

\* The number of code fence lines of the run.
FenceCount == FencesThrough(Len(lines))

\* Line i holds the property separator and no code fence is open at it.
TakenAsProperty(i) == Line_is_property(lines[i]) /\ FencesThrough(i) % 2 = 0

\* Line i is a directive opener (closer) that is not taken as a property.
OpensDirective(i) == Line_is_directive_opener(lines[i]) /\ ~TakenAsProperty(i)

ClosesDirective(i) == Line_is_directive_closer(lines[i]) /\ ~TakenAsProperty(i)

\* A directive is open after line i: an opener among the first i lines has
\* no closer after it.
DirectiveOpenAfter(i) ==
    \E j \in 1..i : OpensDirective(j) /\ \A k \in (j + 1)..i : ~ClosesDirective(k)

\* The directives of the run are balanced: every closer meets an open
\* directive and none is open at the end.
BalancedDirectives ==
    /\ \A i \in 1..Len(lines) : ClosesDirective(i) => DirectiveOpenAfter(i - 1)
    /\ ~DirectiveOpenAfter(Len(lines))

\* The walk of from_lines reaches line i: no line before it has raised.
Reached(i) == from_lines_loop(lines, i - 1).error = NoError

\* C5 (as claimed): a run of one depth d that builds gives a block of depth
\* d, and a run with a line of another depth than the first fails with the
\* depth mismatch error and returns no Block.
C5_AnyOtherDepthIsDepthMismatch ==
    pc # "start" =>
        /\ (UniformDepth /\ pc = "done") => Block_depth(block) = RunDepth
        /\ ~UniformDepth =>
               pc = "raised" /\ error = ERR_DEPTH_MISMATCH /\ block = NoBlock

\* C5 (amended): a run that builds has one depth d and its block has depth
\* d; a run with a line of another depth than the first fails and returns no
\* Block, with the depth mismatch error if the walk reaches the first such
\* line, and else with the error of the earlier line that stopped the walk.
C5_DepthMismatchAtFirstOtherDepth ==
    pc # "start" =>
        /\ pc = "done" => (UniformDepth /\ Block_depth(block) = RunDepth)
        /\ ~UniformDepth =>
               /\ pc = "raised"
               /\ block = NoBlock
               /\ error = IF Reached(FirstDiffering) THEN ERR_DEPTH_MISMATCH
                          ELSE from_lines_loop(lines, FirstDiffering - 1).error

\* C5, reached: a run with a deeper line that fails on the unopened closer
\* before it.
C5_Witness ==
    /\ pc = "raised"
    /\ ~UniformDepth
    /\ ~Reached(FirstDiffering)
    /\ error = ERR_UNOPENED_DIRECTIVE

\* C6 (as claimed): a run of one depth with balanced directives fails with
\* the unclosed code block error exactly when it holds an odd number of code
\* fence lines, and when it builds, has_code_block tells whether it holds a
\* code fence line.
C6_UnclosedCodeIffOddFences ==
    (pc # "start" /\ UniformDepth /\ BalancedDirectives) =>
        /\ (pc = "raised" /\ error = ERR_UNCLOSED_CODE) <=> (FenceCount % 2 = 1)
        /\ pc = "done" => (block.has_code_block <=> FenceCount >= 1)

\* A directive is open after line i by the marker lines alone: an opener
\* line among the first i lines has no closer line after it.
OpenByMarkers(i) ==
    \E j \in 1..i : /\ Line_is_directive_opener(lines[j])
                    /\ \A k \in (j + 1)..i : ~Line_is_directive_closer(lines[k])

\* Some closer line comes while no directive is open.
CloserMetUnopened ==
    \E i \in 1..Len(lines) : Line_is_directive_closer(lines[i]) /\ ~OpenByMarkers(i - 1)

\* The directive lines of the run are one opener and, after it, one closer.
OneOpenerThenOneCloser ==
    \E o, c \in 1..Len(lines) :
        /\ o < c
        /\ Line_is_directive_opener(lines[o])
        /\ Line_is_directive_closer(lines[c])
        /\ \A i \in 1..Len(lines) \ {o, c} :
               ~Line_is_directive_opener(lines[i]) /\ ~Line_is_directive_closer(lines[i])

\* The directive name of the first opener line of the run.
OpenerName ==
    Line_directive(lines[Min({i \in 1..Len(lines) : Line_is_directive_opener(lines[i])})]).value

PlainDirectiveRun ==
    /\ UniformDepth
    /\ OneOpenerThenOneCloser
    /\ \A i \in 1..Len(lines) :
           /\ ~Line_is_code_fence(lines[i])
           /\ ~Contains(Line_content(lines[i]), MARK_PROPERTY)
           /\ Line_is_directive_opener(lines[i]) =>
                  Contains(Line_content(lines[i]), <<MARK_DIRECTIVE_SPLIT>>)

OutsideFences(i) == ~Line_is_code_fence(lines[i]) /\ FencesThrough(i) % 2 = 0

\* The lines strictly between an opening fence line and the fence line that
\* closes it.
InsideFences(i) == ~Line_is_code_fence(lines[i]) /\ FencesThrough(i) % 2 = 1

\* The property lines outside the code fence regions.
PropertyLines == {i \in 1..Len(lines) : Line_is_property(lines[i]) /\ OutsideFences(i)}

\* The Property of property line i.
PropertyOf(i) == Line_as_property(lines[i]).value

\* C8: when from_lines has built a block, the fields of its properties are
\* exactly the fields of the property lines outside the code fence regions,
\* and each field holds the Property of the last such line with that field.
C8_PropertiesOutsideFencesLastWins ==
    pc = "done" =>
        /\ \A i \in PropertyLines : Line_as_property(lines[i]).ok
        /\ DOMAIN block.properties = {PropertyOf(i).field : i \in PropertyLines}
        /\ \A i \in PropertyLines :
               (\A j \in PropertyLines : j > i => PropertyOf(j).field # PropertyOf(i).field)
               => block.properties[PropertyOf(i).field] = PropertyOf(i)

\* C8, reached: two property lines of one field with different values, the
\* block holding the value of the second.
C8_Witness ==
    /\ pc = "done"
    /\ \E i, j \in PropertyLines :
           /\ i < j
           /\ PropertyOf(i).field = PropertyOf(j).field
           /\ PropertyOf(i).value # PropertyOf(j).value
           /\ block.properties[PropertyOf(j).field].value = PropertyOf(j).value

\* The three aggregated views and, for each, the links of one line.
LinkViews == {"links", "tag_links", "block_links"}

ViewOf(view) ==
    CASE view = "links" -> Block_links(block)
      [] view = "tag_links" -> Block_tag_links(block)
      [] view = "block_links" -> Block_block_links(block).value

LineLinksOf(view, i) ==
    CASE view = "links" -> Line_links(lines[i])
      [] view = "tag_links" -> Line_tag_links(lines[i])
      [] view = "block_links" -> Line_block_links(lines[i]).value

\* C9: for a built block whose block link targets are UUIDs, each of the
\* views links, tag_links and block_links is, line by line in line order,
\* all the links of every line outside the code fence regions and none of
\* any line inside one; of the fence lines themselves, some may add their
\* links.
C9_ViewsSkipFencedLines ==
    (pc = "done" /\ Block_block_links(block).ok) =>
        \A view \in LinkViews :
            \E gathered \in SUBSET {i \in 1..Len(lines) : Line_is_code_fence(lines[i])} :
                ViewOf(view) =
                    Flatten([i \in 1..Len(lines) |->
                                IF OutsideFences(i) \/ i \in gathered
                                THEN LineLinksOf(view, i) ELSE <<>>])

\* C9, reached: a line with a page link, a tag and a block link between two
\* fence lines, none of them in the views of the block.
C9_Witness ==
    /\ pc = "done"
    /\ \E i \in 1..Len(lines) :
           /\ InsideFences(i)
           /\ \A view \in LinkViews :
                  /\ LineLinksOf(view, i) # <<>>
                  /\ \A k \in 1..Len(ViewOf(view)) : ViewOf(view)[k] # LineLinksOf(view, i)[1]

\* No line of the run is a property line, a directive opener or a directive
\* closer.
NoPropertyOrDirectiveLines ==
    \A i \in 1..Len(lines) :
        /\ ~Line_is_property(lines[i])
        /\ ~Line_is_directive_opener(lines[i])
        /\ ~Line_is_directive_closer(lines[i])

\* C10: the content of a block built from a run without property and
\* directive lines is the contents of all the lines joined by newlines, and
\* its raw text is the raw texts of all the lines joined by newlines.
C10_ContentAndRawJoinAllLines ==
    (pc = "done" /\ NoPropertyOrDirectiveLines) =>
        /\ Block_content(block) =
               Join([i \in 1..Len(lines) |-> Line_content(lines[i])], NEWLINE)
        /\ Block_raw(block) = Join(lines, NEWLINE)

\* C10, reached: a block of three lines, code fences among them.
C10_Witness ==
    /\ pc = "done"
    /\ NoPropertyOrDirectiveLines
    /\ Len(lines) = 3
    /\ FenceCount = 2
    /\ Len(Block_content(block)) > Len(Line_content(lines[1])) + Len(Line_content(lines[3]))

\* ------------------------------------- claims on lines between code fences

\* The lines the content of the block is claimed to keep: those strictly
\* between fence lines, and of the others those that are content.
LinesKept == {i \in 1..Len(lines) : InsideFences(i) \/ Line_is_content(lines[i])}

\* The contents of the lines of a set, in line order.
RECURSIVE ContentsOf(_, _)
ContentsOf(kept, i) ==
    IF i > Len(lines) THEN <<>>
    ELSE (IF i \in kept THEN <<Line_content(lines[i])>> ELSE <<>>) \o ContentsOf(kept, i + 1)

\* C20 (as claimed): in a block that from_lines built, a line that holds the
\* property separator strictly between two fence lines adds no entry to the
\* properties, and the content of the block keeps it, as it keeps every
\* line between the fences.
C20_SeparatorLinesBetweenFencesKept ==
    (pc = "done" /\ \E i \in 1..Len(lines) :
                        InsideFences(i) /\ Contains(Line_content(lines[i]), MARK_PROPERTY)) =>
        /\ DOMAIN block.properties = {PropertyOf(i).field : i \in PropertyLines}
        /\ Block_content(block) = Join(ContentsOf(LinesKept, 1), NEWLINE)

\* ---------------------------------------------------- Block.id, as steps

\* A second block id, spelled in capitals with hyphens.
SampleTargetHyphened ==
    [i \in 1..36 |-> IF i \in {9, 14, 19, 24} THEN "-" ELSE IF i % 2 = 1 THEN "B" ELSE "2"]

\* The lines of the runs whose blocks have their ids read: a text line, two
\* id property lines with UUID values, an id property line whose value is
\* no UUID, and a line of depth 2.
IdLinePool ==
    { <<" ", " ", "a">>,
      <<" ", " ">> \o ID_FIELD \o MARK_PROPERTY \o SampleTarget,
      <<" ", " ">> \o ID_FIELD \o MARK_PROPERTY \o SampleTargetHyphened,
      <<" ", " ">> \o ID_FIELD \o MARK_PROPERTY \o <<"x">>,
      Indent(1) \o <<" ", " ", "c">> }

IdRuns == {[i \in 1..Len(ls) |-> parse_line(ls[i])] : ls \in SeqsUpTo(IdLinePool, MaxIdRun) \ {<<>>}}

InitIds ==
    /\ pc = "start"
    /\ error = NoError
    /\ IdleTree /\ Idle /\ IdleIds /\ IdleProperty /\ IdleLink /\ IdleGraph /\ IdleDerived

\* from_lines returning a block: the first or the second of the two blocks
\* whose ids are compared.
IdsFromLinesReturns ==
    /\ Len(blocks) < 2
    /\ \E run \in IdRuns :
          \E built \in {from_lines(run)} :
              /\ built.error = NoError
              /\ blocks' = Append(blocks, built.block)
              /\ block_id' = Append(block_id, NoId)
    /\ UNCHANGED <<source, pc, tree_branches, block_branches, block_parent, error,
                   lines, block, uuid4_count, property_vars, link_vars, graph_vars, derived_vars>>

\* from_lines raising.
IdsFromLinesRaises ==
    /\ Len(blocks) < 2
    /\ \E run \in IdRuns :
          \E built \in {from_lines(run)} :
              /\ built.error # NoError
              /\ error' = built.error
    /\ UNCHANGED <<source, pc, blocks, tree_branches, block_branches, block_parent,
                   lines, block, id_vars, property_vars, link_vars, graph_vars, derived_vars>>

\* Block.id read on block i, returning.
BlockIdReturns(i) ==
    /\ \E read \in {Block_id(blocks[i], block_id[i], uuid4_count)} :
          /\ read.ok
          /\ block_id' = [block_id EXCEPT ![i] = read._id]
          /\ uuid4_count' = read.count
    /\ UNCHANGED <<source, pc, blocks, tree_branches, block_branches, block_parent,
                   error, lines, block, property_vars, link_vars, graph_vars, derived_vars>>

\* Block.id read on block i, raising the ValueError of uuid.UUID.
BlockIdRaises(i) ==
    /\ \E read \in {Block_id(blocks[i], block_id[i], uuid4_count)} :
          /\ ~read.ok
          /\ error' = ERR_BAD_UUID
    /\ UNCHANGED <<source, pc, blocks, tree_branches, block_branches, block_parent,
                   lines, block, id_vars, property_vars, link_vars, graph_vars, derived_vars>>

NextIds ==
    \/ IdsFromLinesReturns
    \/ IdsFromLinesRaises
    \/ \E i \in 1..Len(blocks) : BlockIdReturns(i)
    \/ \E i \in 1..Len(blocks) : BlockIdRaises(i)

SpecIds == InitIds /\ [][NextIds]_vars

\* ------------------------------------------------- claims on Block.id

\* Block i has an id property.
HasIdProperty(i) == ID_FIELD \in DOMAIN blocks[i].properties

\* The value of the id property of block i is a UUID.
IdPropertyIsUUID(i) == HasIdProperty(i) /\ UUID(blocks[i].properties[ID_FIELD].value).ok

\* The id of block i has been read.
IdRead(i) == block_id[i] # NoId

\* The ids read so far: a block with an id property that is a UUID has that
\* UUID as its id; two blocks without an id property have different ids,
\* also when their lines are the same; and a read of an id that was read
\* before returns that id and changes nothing.
IdsAsBuilt ==
    /\ \A i \in 1..Len(blocks) :
           (IdRead(i) /\ IdPropertyIsUUID(i)) =>
               block_id[i] = UUID(blocks[i].properties[ID_FIELD].value).value
    /\ \A i, j \in 1..Len(blocks) :
           (i # j /\ IdRead(i) /\ IdRead(j) /\ ~HasIdProperty(i) /\ ~HasIdProperty(j)) =>
               block_id[i] # block_id[j]
    /\ \A i \in 1..Len(blocks) :
           IdRead(i) =>
               Block_id(blocks[i], block_id[i], uuid4_count) =
                   [ok |-> TRUE, _id |-> block_id[i], count |-> uuid4_count,
                    value |-> block_id[i]]

\* An id that was read stays what it is.
IdsKept ==
    \A i \in 1..Len(block_id) : IdRead(i) => block_id'[i] = block_id[i]

\* C11: a block with an id property of a valid UUID value has that UUID as
\* its id; two blocks without an id property never have equal ids, also
\* when built from the same lines; and an id, once read, is the same on
\* every later read.
C11_BlockIdentity == []IdsAsBuilt /\ [][IdsKept]_vars

\* C11, reached: two blocks of the same lines without an id property, both
\* ids read and different.
C11_Witness ==
    /\ Len(blocks) = 2
    /\ blocks[1].lines = blocks[2].lines
    /\ ~HasIdProperty(1)
    /\ IdRead(1) /\ IdRead(2)
    /\ block_id[1] # block_id[2]

\* C19 (as claimed): from_lines returns no Block for a run whose id property
\* value is no UUID: every block it has returned either has no id property
\* or has one whose value is a UUID.
C19_NoBlockWithBadId ==
    \A i \in 1..Len(blocks) : HasIdProperty(i) => IdPropertyIsUUID(i)

\* ------------------------------------------ Property.loads and as_list, as steps

\* The pieces a property text is made of.
PropertyPieces == {<<"a">>, <<"b">>, <<",">>, <<" ">>, MARK_PROPERTY}

\* The texts handed to Property.loads: at most MaxPieces pieces in a row.
PropertyTexts == {Flatten(ps) : ps \in SeqsUpTo(PropertyPieces, MaxPieces)}

\* Property.loads is called with a text.
InitProperty ==
    /\ prop_text \in PropertyTexts
    /\ pc = "start"
    /\ error = NoError
    /\ prop_loaded = NoProperty
    /\ value_list = <<>>
    /\ source = <<>>
    /\ lines = <<>>
    /\ block = NoBlock
    /\ IdleTree /\ IdleIds /\ IdleLink /\ IdleGraph /\ IdleDerived

\* Property.loads returns a Property.
PropertyLoadsReturns ==
    /\ pc = "start"
    /\ \E loaded \in {Property_loads(prop_text)} :
           /\ loaded.ok
           /\ prop_loaded' = loaded.value
    /\ pc' = "loaded"
    /\ UNCHANGED <<source, blocks, tree_branches, block_branches, block_parent,
                   error, lines, block, prop_text, value_list,
                   id_vars, link_vars, graph_vars, derived_vars>>

\* Property.loads raises the ValueError of the tuple unpacking.
PropertyLoadsRaises ==
    /\ pc = "start"
    /\ \E loaded \in {Property_loads(prop_text)} :
           /\ ~loaded.ok
           /\ error' = IF Contains(prop_text, MARK_PROPERTY)
                       THEN ERR_PROPERTY_UNPACK
                       ELSE ERR_PROPERTY_UNPACK_FEW
    /\ pc' = "raised"
    /\ UNCHANGED <<source, blocks, tree_branches, block_branches, block_parent,
                   lines, block, property_vars, id_vars, link_vars, graph_vars, derived_vars>>

\* Property.as_list is called on the loaded Property.
PropertyAsList ==
    /\ pc = "loaded"
    /\ value_list' = Property_as_list(prop_loaded)
    /\ pc' = "listed"
    /\ UNCHANGED <<source, blocks, tree_branches, block_branches, block_parent,
                   error, lines, block, prop_text, prop_loaded,
                   id_vars, link_vars, graph_vars, derived_vars>>

NextProperty == PropertyLoadsReturns \/ PropertyLoadsRaises \/ PropertyAsList

SpecProperty == InitProperty /\ [][NextProperty]_vars

\* ------------------------------------------------------ claims on Property

\* The place of the first separator of the text handed to loads (0: none).
FirstSeparator == FindFrom(prop_text, MARK_PROPERTY, 1)

\* C12 (as claimed): for every text with one or more separators, loads
\* returns a Property whose field is the text before the first separator
\* without its leading whitespace and whose value is all the text after the
\* first separator.
C12_LoadsSplitsAtFirstSeparator ==
    (pc # "start" /\ FirstSeparator # 0) =>
        /\ pc # "raised"
        /\ prop_loaded.field = LStrip(SubSeq(prop_text, 1, FirstSeparator - 1), WHITESPACE)
        /\ prop_loaded.value =
               SubSeq(prop_text, FirstSeparator + Len(MARK_PROPERTY), Len(prop_text))

\* The places of the commas of the loaded value, in order, with 0 in front
\* and one past the end behind.
RECURSIVE CommasFrom(_)
CommasFrom(i) ==
    IF i > Len(prop_loaded.value) THEN <<Len(prop_loaded.value) + 1>>
    ELSE IF prop_loaded.value[i] = "," THEN <<i>> \o CommasFrom(i + 1)
    ELSE CommasFrom(i + 1)

CommaCuts == <<0>> \o CommasFrom(1)

\* C13: as_list returns the value cut at every comma, each segment trimmed,
\* in the order of the value and with duplicates kept: (number of commas + 1)
\* elements.
C13_AsListSplitsAtEveryComma ==
    pc = "listed" =>
        /\ Len(value_list) = Len(CommaCuts) - 1
        /\ Len(value_list) =
               Cardinality({i \in 1..Len(prop_loaded.value) : prop_loaded.value[i] = ","}) + 1
        /\ \A j \in 1..Len(value_list) :
               value_list[j] =
                   Strip(SubSeq(prop_loaded.value, CommaCuts[j] + 1, CommaCuts[j + 1] - 1),
                         WHITESPACE)

\* C13, reached: a list that holds the same element twice, and an element
\* that was trimmed.
C13_Witness ==
    /\ pc = "listed"
    /\ \E i, j \in 1..Len(value_list) : i < j /\ value_list[i] = value_list[j]
    /\ \E i \in 1..Len(prop_loaded.value) : prop_loaded.value[i] = " "

\* ------------------------------------------------ parse_page_text, as steps

\* The TypeError of blocks[0] on the BlockTree that find_blocks returns.
ERR_NOT_SUBSCRIPTABLE == "'BlockTree' object is not subscriptable"

\* Sample lines of page text: property lines flush left, an opener, a
\* property line of the opened block, a deeper opener.
PageLinePool ==
    { <<"k", ":", ":", " ", "v">>,
      <<"j", ":", ":", " ", "w">>,
      <<MARK_BLOCK_OPENER, " ", "a">>,
      <<" ", " ", "k", ":", ":", " ", "w">>,
      <<MARK_BLOCK_INDENT, MARK_BLOCK_OPENER, " ", "c">> }

\* The page texts: at most MaxPageLines sample lines joined by newlines.
PageTexts == {Join(ls, NEWLINE) : ls \in SeqsUpTo(PageLinePool, MaxPageLines)}

\* parse_page_text is called with a text.
InitPage ==
    /\ source \in PageTexts
    /\ pc = "start"
    /\ error = NoError
    /\ blocks = <<>>
    /\ tree_branches = <<>>
    /\ block_branches = <<>>
    /\ block_parent = <<>>
    /\ Idle /\ IdleIds /\ IdleProperty /\ IdleLink /\ IdleGraph /\ IdleDerived

\* parse_page_text: find_blocks raises and the error is raised again.
ParsePageTextFindBlocksRaises ==
    /\ pc = "start"
    /\ \E built \in {from_text_blocks(source)} :
          /\ built.error # NoError
          /\ error' = built.error
    /\ pc' = "raised"
    /\ UNCHANGED <<source, blocks, tree_branches, block_branches, block_parent, lines, block>>
    /\ UNCHANGED <<id_vars, property_vars, link_vars, graph_vars, derived_vars>>

\* parse_page_text: find_blocks returns a BlockTree, and blocks[0] raises
\* TypeError, a BlockTree having no __getitem__; no Page is built.
ParsePageTextSubscriptRaises ==
    /\ pc = "start"
    /\ \E built \in {from_text_blocks(source)} :
          /\ built.error = NoError
          /\ blocks' = built.blocks
          /\ \E t \in {find_branches(built.blocks)} :
                 /\ tree_branches' = t.branches
                 /\ block_branches' = t.block_branches
                 /\ block_parent' = t.parent
    /\ error' = ERR_NOT_SUBSCRIPTABLE
    /\ pc' = "raised"
    /\ UNCHANGED <<source, lines, block>>
    /\ UNCHANGED <<id_vars, property_vars, link_vars, graph_vars, derived_vars>>

NextPage == ParsePageTextFindBlocksRaises \/ ParsePageTextSubscriptRaises

SpecPage == InitPage /\ [][NextPage]_vars

\* --------------------------------------------- claims on parse_page_text

\* C14 (as claimed): when the blocks of the text build, parse_page_text
\* returns a page whose properties are those of the first block if that
\* block has depth 0 and are empty otherwise.
C14_PagePropertiesOfRootBlock ==
    (pc # "start" /\ blocks # <<>>) =>
        /\ pc = "returned"
        /\ parsed_page.blocks = blocks
        /\ parsed_page.properties =
               IF Block_depth(blocks[1]) = 0 THEN blocks[1].properties ELSE EmptyDict

\* ------------------------------------------------- Graph.add_page, as steps

\* The lines of the Block objects that the sample pages hold: a block with a
\* link into a namespace and a tag link, two blocks of different content
\* with the same id property, a block whose id property is no UUID, and a
\* block with a tags property.
GraphBlockLines ==
    << << <<"-", " ", "a", " ", "[", "[", "n", "/", "m", "]", "]", " ", "#", "t">> >>,
       << <<"-", " ", "b">>, <<" ", " ">> \o ID_FIELD \o MARK_PROPERTY \o SampleTarget >>,
       << <<"-", " ", "c">>, <<" ", " ">> \o ID_FIELD \o MARK_PROPERTY \o SampleTarget >>,
       << <<"-", " ", "d">>, <<" ", " ">> \o ID_FIELD \o MARK_PROPERTY \o <<"x">> >>,
       << <<"-", " ", "e">>, <<" ", " ">> \o TAGS_FIELD \o MARK_PROPERTY \o <<"w">> >> >>

\* The Block objects: from_lines of each of the runs.
GraphHeap ==
    [i \in 1..Len(GraphBlockLines) |->
        from_lines([j \in 1..Len(GraphBlockLines[i]) |-> parse_line(GraphBlockLines[i][j])]).block]

\* A properties map of one property, loaded from its text.
OneProperty(raw) ==
    The({DictSet(EmptyDict, loaded.value.field, loaded.value) : loaded \in {Property_loads(raw)}})

\* The pages handed to add_page.
GraphPagePool ==
    { Page(<<"a">>, <<1>>, EmptyDict, FALSE),
      Page(<<"a">>, <<2, 3>>, EmptyDict, FALSE),
      Page(<<"n", "/", "m", "/", "p">>, <<>>,
           OneProperty(TAGS_FIELD \o MARK_PROPERTY \o <<"u", ",", " ", "v">>), FALSE),
      Page(<<"n">>, <<4>>, EmptyDict, FALSE),
      Page(<<"t">>, <<2>>, OneProperty(<<"k">> \o MARK_PROPERTY \o <<"v">>), FALSE),
      Page(<<"u">>, <<3>>, EmptyDict, FALSE),
      Page(<<"v">>, <<5>>, EmptyDict, FALSE),
      Page(<<"n", "/", "m">>, <<1>>, EmptyDict, FALSE) }

\* The names handed to add_placeholder.
GraphPlaceholderNames == {<<"a">>, <<"k">>}

\* The graph of the state, as add_page takes it.
GraphNow == GraphState(graph_pages, graph_blocks, blocks, block_id, uuid4_count)

\* Graph(): no pages, no blocks; the Block objects of the sample pages
\* exist, no id read.
InitGraph ==
    /\ pc = "start"
    /\ error = NoError
    /\ source = <<>>
    /\ blocks = GraphHeap
    /\ block_id = [i \in 1..Len(GraphHeap) |-> NoId]
    /\ uuid4_count = 0
    /\ tree_branches = <<>>
    /\ block_branches = <<>>
    /\ block_parent = <<>>
    /\ Idle /\ IdleProperty /\ IdleLink /\ IdleGraph /\ IdleDerived

\* What a call of add_page leaves, whether it returns or raises.
GraphCallLeaves(page, g) ==
    /\ parsed_page' = page
    /\ graph_pages' = g.pages
    /\ graph_blocks' = g.blocks
    /\ block_id' = g.ids
    /\ uuid4_count' = g.count
    /\ error' = g.error
    /\ UNCHANGED <<source, blocks, tree_branches, block_branches, block_parent,
                   lines, block, property_vars, link_vars, derived_vars>>

\* graph.add_page(page) returns.
GraphAddPageReturns ==
    \E page \in GraphPagePool :
        \E g \in {add_page(GraphNow, page)} :
            /\ g.error = NoError
            /\ GraphCallLeaves(page, g)
            /\ pc' = pc

\* graph.add_page(page) raises DuplicatePageNameError, or the ValueError of a
\* Block.id read; what it did before stays done.
GraphAddPageRaises ==
    \E page \in GraphPagePool :
        \E g \in {add_page(GraphNow, page)} :
            /\ g.error # NoError
            /\ GraphCallLeaves(page, g)
            /\ pc' = "failed"

\* graph.add_placeholder(page_name) returns.
GraphAddPlaceholderReturns ==
    \E page_name \in GraphPlaceholderNames :
        \E g \in {add_placeholder(GraphNow, page_name)} :
            /\ g.error = NoError
            /\ GraphCallLeaves(Page(page_name, <<>>, EmptyDict, TRUE), g)
            /\ pc' = pc

\* graph.add_placeholder(page_name) raises DuplicatePageNameError.
GraphAddPlaceholderRaises ==
    \E page_name \in GraphPlaceholderNames :
        \E g \in {add_placeholder(GraphNow, page_name)} :
            /\ g.error # NoError
            /\ GraphCallLeaves(Page(page_name, <<>>, EmptyDict, TRUE), g)
            /\ pc' = "failed"

NextGraph ==
    \/ GraphAddPageReturns
    \/ GraphAddPageRaises
    \/ GraphAddPlaceholderReturns
    \/ GraphAddPlaceholderRaises

SpecGraph == InitGraph /\ [][NextGraph]_vars

\* ------------------------------------------------------- claims on Graph

\* No call has raised so far.
AllCallsReturned == pc = "start"

\* The name of the page handed to the call of a step is bound to a real page
\* before the step.
BoundToRealPage(page) ==
    page.name \in DOMAIN graph_pages /\ ~graph_pages[page.name].is_placeholder

\* The name of the page handed to the call of a step is bound to a
\* placeholder before the step.
BoundToPlaceholder(page) ==
    page.name \in DOMAIN graph_pages /\ graph_pages[page.name].is_placeholder

\* C15 (as claimed): a call of add_page with a page whose name is bound to a
\* real page raises DuplicatePageNameError and leaves pages and blocks as
\* they are; with a page whose name is bound to a placeholder it returns
\* and the name is bound to the page handed in.
C15_DuplicateRaisesPlaceholderGivesWay ==
    [][ /\ BoundToRealPage(parsed_page') =>
               /\ error' = ERR_DUPLICATE_PAGE
               /\ graph_pages' = graph_pages
               /\ graph_blocks' = graph_blocks
        /\ BoundToPlaceholder(parsed_page') =>
               /\ error' = NoError
               /\ graph_pages'[parsed_page'.name] = parsed_page'
      ]_vars

\* The Block objects of a page.
BlocksOf(page) == {page.blocks[i] : i \in 1..Len(page.blocks)}

\* The names above a name in its namespace chain: what is in front of each
\* "/" of the name.
NamespaceChain(name) == {SubSeq(name, 1, i - 1) : i \in {j \in 1..Len(name) : name[j] = "/"}}

\* The names a page refers to by its links, its tag links, the tags of its
\* own tags property, the names of its properties and of the properties of
\* its blocks, and its namespace chain.
NamesReferredTo(page) ==
    UNION { {l.target : l \in Elements(Block_links(blocks[b]))}
            \cup {l.target : l \in Elements(Block_tag_links(blocks[b]))}
            \cup DOMAIN blocks[b].properties
          : b \in BlocksOf(page) }
    \cup Elements(Page_tags(page))
    \cup DOMAIN page.properties
    \cup NamespaceChain(page.name)

\* The tags of the tags properties of the blocks of a page.
BlockTagsOf(page) == UNION {Elements(Block_tags(blocks[b])) : b \in BlocksOf(page)}

\* C16 (as claimed): while every call has returned, every name a page of
\* the graph refers to has a page, the tags of every tags property, of a
\* block as of the page, among them.
C16_EveryNameReferredToHasAPage ==
    AllCallsReturned =>
        \A name \in DOMAIN graph_pages :
            NamesReferredTo(graph_pages[name]) \cup BlockTagsOf(graph_pages[name])
                \subseteq DOMAIN graph_pages

\* C16 (amended): while every call has returned, every link target, tag link
\* target, tag of the page's own tags property, name of a property of the
\* page or of one of its blocks, and name of the namespace chain of every
\* page of the graph has a page.
C16_PlaceholderClosure ==
    AllCallsReturned =>
        \A name \in DOMAIN graph_pages :
            NamesReferredTo(graph_pages[name]) \subseteq DOMAIN graph_pages

\* C16, reached: a real page two levels down a namespace with a tags
\* property, and a page with a link, in a graph no call has failed on.
C16_Witness ==
    /\ AllCallsReturned
    /\ \E name \in DOMAIN graph_pages :
           /\ ~graph_pages[name].is_placeholder
           /\ Cardinality(NamespaceChain(name)) = 2
           /\ Page_tags(graph_pages[name]) # <<>>
    /\ \E name \in DOMAIN graph_pages :
           \E b \in BlocksOf(graph_pages[name]) : Block_links(blocks[b]) # <<>>

\* The Block objects held by the pages of the graph.
BlocksInGraph == UNION {BlocksOf(graph_pages[name]) : name \in DOMAIN graph_pages}

\* C17 (as claimed): while every call has returned, every block of every
\* page of the graph has its id as a key of graph.blocks, and the entry of
\* that key is the block itself.
C17_EveryBlockUnderItsId ==
    AllCallsReturned =>
        \A b \in BlocksInGraph :
            /\ block_id[b] # NoId
            /\ block_id[b] \in DOMAIN graph_blocks
            /\ graph_blocks[block_id[b]] = b

\* C17 (amended): while every call has returned, every block of every page
\* of the graph has its id as a key of graph.blocks; the entry of that key
\* is a block of a page of the graph with that id, and is the block itself
\* when no other block of the graph has the same id.
C17_EveryIdRegistered ==
    AllCallsReturned =>
        \A b \in BlocksInGraph :
            /\ block_id[b] # NoId
            /\ block_id[b] \in DOMAIN graph_blocks
            /\ graph_blocks[block_id[b]] \in BlocksInGraph
            /\ block_id[graph_blocks[block_id[b]]] = block_id[b]
            /\ (\A other \in BlocksInGraph : block_id[other] = block_id[b] => other = b)
                   => graph_blocks[block_id[b]] = b

\* C17, reached: two blocks of the graph with the same id, and a third block
\* with an id of its own, in a graph no call has failed on.
C17_Witness ==
    /\ AllCallsReturned
    /\ \E b, other \in BlocksInGraph : b # other /\ block_id[b] = block_id[other]
    /\ \E b \in BlocksInGraph :
           /\ \A other \in BlocksInGraph : block_id[other] = block_id[b] => other = b
           /\ graph_blocks[block_id[b]] = b

\* --------------------------------------------------- ResourceLink, as steps

\* The targets handed to ResourceLink: files in and at the assets folder,
\* URLs with and without a host, feed paths, a file elsewhere, the empty
\* text.
ResourceTargets ==
    { PATH_ASSETS \o <<"/", "x">>,
      PATH_ASSETS,
      <<"h", "t", "t", "p", "s", ":", "/", "/", "a", ".", "b", "/", "c">>,
      <<"h", "t", "t", "p", "s", ":", "/", "/">>,
      <<"m", "a", "i", "l", "t", "o", ":", "a">>,
      <<"/", "i", "n", "d", "e", "x", ".", "x", "m", "l">>,
      <<"/", "p", "o", "s", "t", "/", "i", "n", "d", "e", "x", ".", "x", "m", "l">>,
      <<"x", ".", "t", "x", "t">>,
      <<>> }

\* The labels handed to ResourceLink.
ResourceLabels ==
    { <<>>, <<"x">>, <<" ">>, <<"/", "i", "n", "d", "e", "x", ".", "x", "m", "l">> }

\* ResourceLink is called; resource_link holds the arguments.
InitLink ==
    /\ resource_link \in
           { [target |-> target, link_text |-> link_text, is_embed |-> is_embed]
             : target \in ResourceTargets, link_text \in ResourceLabels, is_embed \in BOOLEAN }
    /\ pc = "start"
    /\ error = NoError
    /\ IdleTree /\ Idle /\ IdleIds /\ IdleProperty /\ IdleGraph /\ IdleDerived

\* ResourceLink(...) returns the link.
ResourceLinkReturns ==
    /\ pc = "start"
    /\ \E made \in {ResourceLink(resource_link.target, resource_link.link_text,
                                 resource_link.is_embed)} :
           /\ made.ok
           /\ resource_link' = made.value
    /\ pc' = "constructed"
    /\ UNCHANGED <<source, blocks, tree_branches, block_branches, block_parent,
                   error, lines, block, id_vars, property_vars, graph_vars, derived_vars>>

\* ResourceLink(...) raises the ValidationError of the target validator.
ResourceLinkRaises ==
    /\ pc = "start"
    /\ \E made \in {ResourceLink(resource_link.target, resource_link.link_text,
                                 resource_link.is_embed)} :
           /\ ~made.ok
           /\ error' = ERR_RESOURCE_TARGET
    /\ pc' = "raised"
    /\ UNCHANGED <<source, blocks, tree_branches, block_branches, block_parent,
                   lines, block, id_vars, property_vars, link_vars, graph_vars, derived_vars>>

NextLink == ResourceLinkReturns \/ ResourceLinkRaises

SpecLink == InitLink /\ [][NextLink]_vars

\* ------------------------------------------------- claims on ResourceLink

\* A feed path: "/", any folders, "index.xml".
IsFeedPath(v) ==
    /\ StartsWith(v, <<"/">>)
    /\ Len(v) >= 10
    /\ SubSeq(v, Len(v) - 9, Len(v)) = <<"/", "i", "n", "d", "e", "x", ".", "x", "m", "l">>

\* C18 (as claimed): the construction succeeds exactly when the label is not
\* empty and the target starts with the assets prefix, or is a valid URI,
\* or is a feed path.
C18_ConstructedIffLabelAndTarget ==
    pc # "start" =>
        (pc = "constructed" <=>
            /\ resource_link.link_text # <<>>
            /\ \/ StartsWith(resource_link.target, PATH_ASSETS)
               \/ AnyUrl_ok(resource_link.target)
               \/ IsFeedPath(resource_link.target))

\* -------------------------------------------------------- parse_line, as steps

\* The characters of the raw lines: the indent, the opener marker, the
\* continuation marker (which is also the separator), and a letter.
RawLineChars == {MARK_BLOCK_INDENT, MARK_BLOCK_OPENER, MARK_BLOCK_CONTINUATION, "a"}

\* The raw lines handed to parse_line.
RawLines == SeqsUpTo(RawLineChars, MaxChars)

\* parse_line is called with a raw line.
InitLine ==
    /\ line_raw \in RawLines
    /\ line_view = NoLineView
    /\ pc = "start"
    /\ error = NoError
    /\ IdleTree /\ Idle /\ IdleIds /\ IdleProperty /\ IdleLink /\ IdleGraph /\ IdleLater

\* parse_line returns the Line, and its content, depth and is_block_opener
\* are read.
ParseLine ==
    /\ pc = "start"
    /\ \E line \in {parse_line(line_raw)} :
           line_view' = [content |-> Line_content(line), depth |-> Line_depth(line),
                         is_block_opener |-> Line_is_block_opener(line)]
    /\ pc' = "parsed"
    /\ UNCHANGED <<source, blocks, tree_branches, block_branches, block_parent,
                   error, lines, block, id_vars, property_vars, link_vars, graph_vars,
                   line_raw, later_vars>>

NextLine == ParseLine

SpecLine == InitLine /\ [][NextLine]_vars

\* --------------------------------------------------- claims on parse_line

\* The number of indent characters the raw line starts with.
IndentCount ==
    IF \A i \in 1..Len(line_raw) : line_raw[i] = MARK_BLOCK_INDENT THEN Len(line_raw)
    ELSE Min({i \in 1..Len(line_raw) : line_raw[i] # MARK_BLOCK_INDENT}) - 1

\* The raw line after its leading indent characters.
AfterIndent == SubSeq(line_raw, IndentCount + 1, Len(line_raw))

\* The separator that follows a marker.
SEPARATOR == " "

\* What is after the indent begins with the opener marker and a separator,
\* or is the bare marker.
OpensBlock ==
    \/ AfterIndent = <<MARK_BLOCK_OPENER>>
    \/ StartsWith(AfterIndent, <<MARK_BLOCK_OPENER, SEPARATOR>>)

\* What is after the indent begins with the opener marker and goes on with
\* other text at once.
MarkerRunsIntoText ==
    /\ StartsWith(AfterIndent, <<MARK_BLOCK_OPENER>>)
    /\ ~OpensBlock

\* C21 (as claimed): a parsed line is a block opener exactly when what is
\* after its indent is the opener marker with a separator or the bare
\* marker; where the marker runs into other text the line is no opener, has
\* the depth of its indent, and has all of that text as its content.
C21_OpenerNeedsSeparator ==
    pc = "parsed" =>
        /\ line_view.is_block_opener <=> OpensBlock
        /\ MarkerRunsIntoText =>
               /\ ~line_view.is_block_opener
               /\ line_view.depth = IndentCount
               /\ line_view.content = AfterIndent

\* What is after the indent begins with the continuation marker.
ContinuesBlock == StartsWith(AfterIndent, <<MARK_BLOCK_CONTINUATION>>)

\* What classification may strip after the indent: nothing, a bare marker,
\* or a marker with its separator.
StrippedMarkers ==
    { <<>>, <<MARK_BLOCK_OPENER>>, <<MARK_BLOCK_CONTINUATION>>,
      <<MARK_BLOCK_OPENER, SEPARATOR>>, <<MARK_BLOCK_CONTINUATION, SEPARATOR>> }

\* C22 (as claimed): the depth of a parsed line is the number of its indent
\* characters, plus one if it opens or continues a block, and the raw line
\* is the indent, the stripped marker with its separator if there is one,
\* and the content.
C22_RawIsIndentMarkerContent ==
    pc = "parsed" =>
        /\ line_view.depth =
               IndentCount + (IF line_view.is_block_opener \/ ContinuesBlock THEN 1 ELSE 0)
        /\ \E marker \in StrippedMarkers :
               /\ marker # <<>> => (line_view.is_block_opener \/ ContinuesBlock)
               /\ line_raw = Repeat(MARK_BLOCK_INDENT, IndentCount) \o marker \o line_view.content

\* ------------------------------ GraphExporter.block_branches, load_graph_blocks

\* The lines of the exported page, each a block of its own: a block with a
\* page link, a block with a tag, a deeper block with a tag followed by a
\* page link, a block two levels deeper than the first, and a block with a
\* link to an asset file.
ExportLinePool ==
    { <<"-", " ", "a", " ", "[", "[", "T", "]", "]">>,
      <<"-", " ", "b", " ", "#", "t">>,
      Indent(1) \o <<"-", " ", "c", " ", "#", "u", " ", "[", "[", "V", "]", "]">>,
      Indent(2) \o <<"-", " ", "d">>,
      <<"-", " ", "[", "x", "]", "(">> \o PATH_ASSETS \o <<"/", "y", ")">> }

\* The texts of the exported page.
ExportTexts == {Join(ls, NEWLINE) : ls \in SeqsUpTo(ExportLinePool, MaxLines)}

\* The name of the exported page.
ExportPageName == <<"p">>

\* The keys of graph.pages whose pages hold blocks, in the order of the dict.
ExportPageNames == <<ExportPageName>>

\* A Graph() and the text of a page.
InitExport ==
    /\ source \in ExportTexts
    /\ pc = "start"
    /\ error = NoError
    /\ blocks = <<>>
    /\ tree_branches = <<>>
    /\ block_branches = <<>>
    /\ block_parent = <<>>
    /\ Idle /\ IdleIds /\ IdleProperty /\ IdleLink /\ IdleGraph /\ IdleDerived

\* The blocks of the text are built and graph.add_page is called with a Page
\* that holds them.
ExportAddPage ==
    /\ pc = "start"
    /\ \E built \in {from_text_blocks(source)} :
         /\ built.error = NoError
         /\ \E page \in {Page(ExportPageName, [i \in 1..Len(built.blocks) |-> i], EmptyDict, FALSE)} :
              \E g \in {add_page(GraphState(EmptyDict, EmptyDict, built.blocks,
                                            [i \in 1..Len(built.blocks) |-> NoId], 0), page)} :
                 /\ g.error = NoError
                 /\ blocks' = built.blocks
                 /\ parsed_page' = page
                 /\ graph_pages' = g.pages
                 /\ graph_blocks' = g.blocks
                 /\ block_id' = g.ids
                 /\ uuid4_count' = g.count
    /\ pc' = "loaded"
    /\ UNCHANGED <<source, tree_branches, block_branches, block_parent, error, lines, block,
                   property_vars, link_vars, derived_vars>>

\* GraphExporter(graph=graph).block_branches is read.
GraphExporterBlockBranches ==
    /\ pc = "loaded"
    /\ exporter_branches' = GraphExporter_block_branches(GraphNow, ExportPageNames)
    /\ pc' = "exported"
    /\ UNCHANGED <<source, blocks, tree_branches, block_branches, block_parent, error, lines,
                   block, id_vars, property_vars, link_vars, graph_vars, line_vars, loader_tables,
                   twice_vars, recursion_vars>>

\* load_graph_blocks(graph) returns its tables.
LoadGraphBlocksReturns ==
    /\ pc = "exported"
    /\ \E loaded \in {load_graph_blocks(GraphNow, ExportPageNames)} :
         /\ loaded.error = NoError
         /\ loader_tables' = loaded.tables
    /\ pc' = "done"
    /\ UNCHANGED <<source, blocks, tree_branches, block_branches, block_parent, error, lines,
                   block, id_vars, property_vars, link_vars, graph_vars, line_vars,
                   exporter_branches, twice_vars, recursion_vars>>

\* load_graph_blocks(graph) raises.
LoadGraphBlocksRaises ==
    /\ pc = "exported"
    /\ \E loaded \in {load_graph_blocks(GraphNow, ExportPageNames)} :
         /\ loaded.error # NoError
         /\ error' = loaded.error
    /\ pc' = "failed"
    /\ UNCHANGED <<source, blocks, tree_branches, block_branches, block_parent, lines,
                   block, id_vars, property_vars, link_vars, graph_vars, line_vars, later_vars>>

NextExport ==
    \/ ExportAddPage
    \/ GraphExporterBlockBranches
    \/ LoadGraphBlocksReturns
    \/ LoadGraphBlocksRaises

SpecExport == InitExport /\ [][NextExport]_vars

\* ------------------------------------------------------ claims on the exports

\* str(block.id) of block i of the page.
IdStrOf(i) == UUID_str(block_id[i])

\* Whether a branch row gives block i of the page the nearest block before it
\* that is less deep as its parent.
RowNamesNearestShallower(row) ==
    \E i \in 1..Len(blocks) :
        /\ row.uuid = IdStrOf(i)
        /\ row.position = i - 1
        /\ row.depth = DepthOf(i)
        /\ NearestShallower(i) # NoParent
        /\ row.parent = IdStrOf(NearestShallower(i))

\* C23: every branch row GraphExporter.block_branches gives, and every row
\* of the branches table load_graph_blocks returns, names as parent of its
\* block the nearest block before it in the page whose depth is strictly
\* less than the depth of the block.
C23_BranchRowsNameNearestShallower ==
    /\ pc \in {"exported", "done", "failed"} =>
          \A k \in 1..Len(exporter_branches) : RowNamesNearestShallower(exporter_branches[k])
    /\ pc = "done" =>
          \A k \in 1..Len(loader_tables.branches) :
              RowNamesNearestShallower(loader_tables.branches[k])

\* The tag_links rows of block i of the page: one for each of its tag links,
\* with the target of that tag link.
TagRowsOf(i) ==
    The({ [k \in 1..Len(tags) |-> [source |-> IdStrOf(i), target |-> tags[k].target]]
        : tags \in {Block_tag_links(blocks[i])} })

\* C24: load_graph_blocks gives the tag_links table exactly one row for
\* every tag link of every block of the page, from the id of the block to
\* the target of that tag link, and does so whether or not the block, or
\* any block before it, has direct links: the tag links never make it raise.
C24_TagRowsCarryOwnTarget ==
    /\ pc = "done" =>
          loader_tables.tag_links = Flatten([i \in 1..Len(blocks) |-> TagRowsOf(i)])
    /\ pc = "failed" => error # ERR_UNBOUND_LOCAL

\* ------------------------------------------- BlockTree.from_text, repeated

\* The list a new Block has as its branches: the field is declared
\* `branches: list[Block] = []`, and every instance gets a copy of the
\* default list.
Block_branches_field(default_list) == default_list

\* A variant of Block_branches_default in which the instances share the
\* default list, so that what find_branches appends stays in it.
Block_branches_default_shared(default_list, appended) == default_list \o Flatten(appended)

\* The default list of the field Block.branches after find_branches appended
\* to the branches of the blocks of a tree: the instances hold copies, no
\* append reaches the default.
Block_branches_default(default_list, appended) == default_list

\* BlockTree.from_text(text) as one call, with the default list of
\* Block.branches as the call finds it: the error, or the blocks, the roots
\* and the branches of every block, and the default list as the call leaves
\* it.
from_text_tree(text, default_list) ==
    The({ IF built.error # NoError
          THEN [text |-> text, error |-> built.error, blocks |-> <<>>, branches |-> <<>>,
                block_branches |-> <<>>, field_default |-> default_list]
          ELSE IF Len(text) = 0
          THEN [text |-> text, error |-> NoError, blocks |-> built.blocks, branches |-> <<1>>,
                block_branches |-> <<Block_branches_field(default_list)>>,
                field_default |-> default_list]
          ELSE The({ [text |-> text, error |-> NoError, blocks |-> built.blocks,
                      branches |-> t.branches,
                      block_branches |->
                          [i \in 1..Len(built.blocks) |->
                              Block_branches_field(default_list) \o t.block_branches[i]],
                      field_default |-> Block_branches_default(default_list, t.block_branches)]
                   : t \in {find_branches(built.blocks)} })
        : built \in {from_text_blocks(text)} })

\* The texts parsed more than once.
ParseTexts == {Join(ls, NEWLINE) : ls \in SeqsUpTo(TextPool, MaxParseLines)}

\* A text parsed between two parses of the source: a block with a branch.
InterveningText == Join(<< <<"-", " ", "x">>, Indent(1) \o <<"-", " ", "y">> >>, NEWLINE)

\* The texts a call may be given.
TextsToParse == {source, InterveningText}

\* A process that has parsed nothing yet.
InitTwice ==
    /\ source \in ParseTexts
    /\ pc = "start"
    /\ error = NoError
    /\ blocks = <<>>
    /\ tree_branches = <<>>
    /\ block_branches = <<>>
    /\ block_parent = <<>>
    /\ Idle /\ IdleIds /\ IdleProperty /\ IdleLink /\ IdleGraph /\ IdleDerived

\* What a call of BlockTree.from_text leaves.
FromTextCallLeaves(tree) ==
    /\ parse_runs' = Append(parse_runs, [text |-> tree.text, error |-> tree.error,
                                         blocks |-> tree.blocks, branches |-> tree.branches,
                                         block_branches |-> tree.block_branches])
    /\ field_default' = tree.field_default
    /\ UNCHANGED <<source, pc, blocks, tree_branches, block_branches, block_parent, error,
                   lines, block, id_vars, property_vars, link_vars, graph_vars, line_vars,
                   export_vars, recursion_vars>>

\* One more call of BlockTree.from_text returns a tree.
FromTextAgainReturns ==
    /\ Len(parse_runs) < MaxParses
    /\ \E text \in TextsToParse :
         \E tree \in {from_text_tree(text, field_default)} :
            /\ tree.error = NoError
            /\ FromTextCallLeaves(tree)

\* One more call of BlockTree.from_text raises.
FromTextAgainRaises ==
    /\ Len(parse_runs) < MaxParses
    /\ \E text \in TextsToParse :
         \E tree \in {from_text_tree(text, field_default)} :
            /\ tree.error # NoError
            /\ FromTextCallLeaves(tree)

NextTwice == FromTextAgainReturns \/ FromTextAgainRaises

SpecTwice == InitTwice /\ [][NextTwice]_vars

\* Whether two calls ended alike: both raised the same error, or both
\* returned forests of the same shape over blocks with the same lines,
\* properties, directive, has_code_block and content.
SameOutcome(one, other) ==
    /\ one.error = other.error
    /\ one.branches = other.branches
    /\ one.block_branches = other.block_branches
    /\ Len(one.blocks) = Len(other.blocks)
    /\ \A i \in 1..Len(one.blocks) :
          /\ one.blocks[i].lines = other.blocks[i].lines
          /\ one.blocks[i].properties = other.blocks[i].properties
          /\ one.blocks[i].directive = other.blocks[i].directive
          /\ one.blocks[i].has_code_block = other.blocks[i].has_code_block
          /\ Block_content(one.blocks[i]) = Block_content(other.blocks[i])

GraphPlaceholderLists == SeqsUpTo(GraphPlaceholderNames, 2) \ {<<>>}

\* The number of names of a list that add_placeholders hands to
\* add_placeholder: all of them, or those up to the first that raises.
NamesHandled(page_names) ==
    Min({n \in 1..Len(page_names) :
            \/ n = Len(page_names)
            \/ add_placeholders_list(GraphNow, page_names, n).error # NoError})

\* graph.add_placeholders(page_names) returns.
GraphAddPlaceholdersReturns ==
    \E page_names \in GraphPlaceholderLists :
        \E g \in {add_placeholders_list(GraphNow, page_names, Len(page_names))} :
            /\ g.error = NoError
            /\ GraphCallLeaves(Page(page_names[Len(page_names)], <<>>, EmptyDict, TRUE), g)
            /\ pc' = pc

\* graph.add_placeholders(page_names) raises DuplicatePageNameError at the
\* first name that is bound to a real page; the names before it have their
\* pages.
GraphAddPlaceholdersRaises ==
    \E page_names \in GraphPlaceholderLists :
        \E g \in {add_placeholders_list(GraphNow, page_names, Len(page_names))} :
            /\ g.error # NoError
            /\ GraphCallLeaves(Page(page_names[NamesHandled(page_names)], <<>>, EmptyDict, TRUE), g)
            /\ pc' = "failed"

NextGraphCalls ==
    \/ NextGraph
    \/ GraphAddPlaceholdersReturns
    \/ GraphAddPlaceholdersRaises

SpecGraphCalls == InitGraph /\ [][NextGraphCalls]_vars

\* C26: a name bound to a page that is no placeholder is bound to that same
\* page after every call of add_page, add_placeholder and add_placeholders,
\* whether the call returns or raises.
C26_RealPageStays ==
    [][ \A name \in DOMAIN graph_pages :
            ~graph_pages[name].is_placeholder =>
                /\ name \in DOMAIN graph_pages'
                /\ graph_pages'[name] = graph_pages[name] ]_vars

\* A call handed a page, or a placeholder, whose name is bound to a real page
\* that is another page: the call raised and the real page is still bound.
C26_Witness ==
    /\ pc = "failed"
    /\ error = ERR_DUPLICATE_PAGE
    /\ parsed_page.name \in DOMAIN graph_pages
    /\ ~graph_pages[parsed_page.name].is_placeholder
    /\ graph_pages[parsed_page.name] # parsed_page
    /\ \E name \in DOMAIN graph_pages : graph_pages[name].is_placeholder

\* ------------------------------------------- Graph.add_page, call by call

\* add_page entered with a page while the calls of stack are under way: the
\* duplicate test, the binding of the name and the gathering of
\* placeholders_needed, up to the call of add_placeholders.  A raise unwinds
\* every call under way.
add_page_enter(g, stack, page) ==
    IF add_page_duplicate(g, page)
    THEN [g |-> [g EXCEPT !.error = ERR_DUPLICATE_PAGE], stack |-> <<>>]
    ELSE The({ The({ IF walked.g.error # NoError
                     THEN [g |-> walked.g, stack |-> <<>>]
                     ELSE [g |-> walked.g,
                           stack |-> Append(stack,
                               [page |-> page,
                                pending |-> add_page_names(bound, page) \cup walked.needed])]
                   : walked \in {add_page_blocks(bound, page, Len(page.blocks))} })
             : bound \in {[g EXCEPT !.pages = DictSet(@, page.name, page)]} })

\* The pages handed to add_page: pages in namespaces of relative and of
\* absolute names, the root itself, a name with two leading separators, and
\* a page whose block has an id property that is no UUID.
RecursionPagePool ==
    { Page(<<"n", "/", "m", "/", "p">>, <<1>>, EmptyDict, FALSE),
      Page(<<"/", "a", "/", "b">>, <<>>, EmptyDict, FALSE),
      Page(<<"/">>, <<>>, EmptyDict, FALSE),
      Page(<<"/", "/", "x", "/", "y">>, <<5>>, EmptyDict, FALSE),
      Page(<<"/", "a">>, <<4>>, EmptyDict, FALSE) }

\* What a step of a call of add_page leaves.
RecursionStepLeaves(page, entered) ==
    /\ parsed_page' = page
    /\ graph_pages' = entered.g.pages
    /\ graph_blocks' = entered.g.blocks
    /\ block_id' = entered.g.ids
    /\ uuid4_count' = entered.g.count
    /\ error' = entered.g.error
    /\ call_stack' = entered.stack
    /\ pc' = IF entered.stack = <<>> THEN "start" ELSE "running"
    /\ UNCHANGED <<source, blocks, tree_branches, block_branches, block_parent,
                   lines, block, property_vars, link_vars, line_vars, export_vars, twice_vars>>

\* graph.add_page(page) is called while no call is under way.
RecursionCall ==
    /\ call_stack = <<>>
    /\ \E page \in RecursionPagePool :
         RecursionStepLeaves(page, add_page_enter(GraphNow, <<>>, page))

\* add_placeholders, one turn of its loop in the innermost call: the next
\* name goes to add_placeholder, which calls add_page with a placeholder.
RecursionAddPlaceholder ==
    /\ call_stack # <<>>
    /\ Len(call_stack) < MaxDepth
    /\ \E top \in {call_stack[Len(call_stack)]} :
         /\ top.pending # {}
         /\ \E page_name \in {The(top.pending)} :
              \E page \in {Page(page_name, <<>>, EmptyDict, TRUE)} :
                 RecursionStepLeaves(page,
                     add_page_enter(GraphNow,
                                    [call_stack EXCEPT ![Len(call_stack)].pending = @ \ {page_name}],
                                    page))

\* The innermost call of add_page returns: its add_placeholders has no name
\* left.
RecursionReturn ==
    /\ call_stack # <<>>
    /\ call_stack[Len(call_stack)].pending = {}
    /\ call_stack' = SubSeq(call_stack, 1, Len(call_stack) - 1)
    /\ pc' = IF Len(call_stack) = 1 THEN "start" ELSE "running"
    /\ UNCHANGED <<source, blocks, tree_branches, block_branches, block_parent, error,
                   lines, block, id_vars, property_vars, link_vars, graph_vars, line_vars,
                   export_vars, twice_vars>>

NextRecursion ==
    \/ RecursionCall
    \/ RecursionAddPlaceholder
    \/ RecursionReturn

SpecRecursion == InitGraph /\ [][NextRecursion]_vars

\* The interpreter runs a call that is under way to its end: a step of the
\* call that can be taken is taken.  Nothing obliges the caller to make
\* another call.
SpecRecursionFair ==
    SpecRecursion /\ WF_vars(RecursionAddPlaceholder) /\ WF_vars(RecursionReturn)

\* C27: every call of add_page comes to an end: whenever calls are under
\* way, a state follows in which none is.
C27_AddPageTerminates == (call_stack # <<>>) ~> (call_stack = <<>>)

\* The recursion has gone up the namespace of an absolute name to the root:
\* the outermost call has a page whose name begins with "/", the innermost
\* the placeholder of the root, which needs no further placeholder.
C27_Witness ==
    /\ Len(call_stack) >= 3
    /\ StartsWith(call_stack[1].page.name, <<PATH_SEP>>)
    /\ call_stack[Len(call_stack)].page.name = <<PATH_SEP>>
    /\ call_stack[Len(call_stack)].page.is_placeholder
    /\ call_stack[Len(call_stack)].pending = {}

\* ------------------------------------------------- claims on find_branches

\* The pre-order walk of the tree below block i: the block, then the walks
\* of its branches in order.
RECURSIVE PreOrderFrom(_)
PreOrderFrom(i) ==
    <<i>> \o Flatten([k \in 1..Len(block_branches[i]) |-> PreOrderFrom(block_branches[i][k])])

\* The pre-order walk of the forest.
PreOrder == Flatten([k \in 1..Len(tree_branches) |-> PreOrderFrom(tree_branches[k])])

\* C28: the pre-order walk of the forest find_branches returns is the list
\* of blocks it was given, in order: every block is in the forest exactly
\* once, as a root or as a branch of one block, and none is out of place.
C28_ForestWalkIsSourceOrder ==
    pc = "done" => PreOrder = [i \in 1..Len(blocks) |-> i]

\* A forest of two roots of which the first has two branches.
C28_Witness ==
    /\ pc = "done"
    /\ Len(tree_branches) = 2
    /\ Len(block_branches[tree_branches[1]]) = 2
    /\ Len(blocks) = 4

\* ------------------------------------- claims on directives and code fences

\* Line i is a directive opener or a directive closer.
DirectiveMarker(i) ==
    Line_is_directive_opener(lines[i]) \/ Line_is_directive_closer(lines[i])

\* The run has directive marker lines, and all of them lie between an
\* opening code fence line and the fence line that closes it.
DirectiveMarkersOnlyInCode ==
    /\ \E i \in 1..Len(lines) : DirectiveMarker(i)
    /\ \A i \in 1..Len(lines) : DirectiveMarker(i) => InsideFences(i)
    /\ FenceCount % 2 = 0

\* C29: a directive opener or closer line inside a code fence region is code
\* text.  A run whose directive marker lines all lie inside closed fence
\* regions raises none of the directive errors, and the block built from it
\* has an empty directive.
C29_FencedDirectiveLinesAreCode ==
    DirectiveMarkersOnlyInCode =>
        /\ error \notin {ERR_UNOPENED_DIRECTIVE, ERR_UNCLOSED_DIRECTIVE, ERR_DIRECTIVE_INDEX}
        /\ pc = "done" => block.directive = <<>>

\* The lines the walk of from_lines takes as directive openers, and as
\* directive closers.
OpenerLines == {i \in 1..Len(lines) : OpensDirective(i)}

CloserLines == {i \in 1..Len(lines) : ClosesDirective(i)}

\* C30: in a run from_lines builds a block from, the directive markers are
\* paired: there are as many openers as closers, no opener comes while a
\* directive is open, and where there is one opener the directive of the
\* block is its name.
C30_BuiltRunsPairTheirDirectives ==
    pc = "done" =>
        /\ Cardinality(OpenerLines) = Cardinality(CloserLines)
        /\ \A i \in OpenerLines : ~DirectiveOpenAfter(i - 1)
        /\ \A i \in OpenerLines :
               OpenerLines = {i} => block.directive = Line_directive(lines[i]).value

====
